---- MODULE Spec2Model ----
(***************************************************************************)
(* Model of the pozor-dom relay: the shared message protocol              *)
(* (pozor-dom-shared/src/lib.rs), the Hub (pozor-dom-hub/src/main.rs,     *)
(* websocket.rs, mqtt.rs, database.rs) and the Cloud                      *)
(* (pozor-dom-cloud/src/main.rs).                                         *)
(*                                                                         *)
(* A Rust String is a sequence of one-character strings.  A JSON document *)
(* inside a text is one token of the sequence (its name is a key of       *)
(* JsonDoc, which gives the parsed object), so that prefixing, trimming   *)
(* and substring search act on it as on any other character.              *)
(***************************************************************************)
EXTENDS Integers, Sequences, FiniteSets, TLC

VARIABLES
    \* ---- pure functions under test (message protocol, device table):
    \* the input, the output and the position in the test
    mIn, mOut, mPc,
    \* ---- Hub: cloud link supervisor (manage_cloud_connection)
    cmdQ,           \* mpsc queue of CloudCommand
    current_task,   \* Option<JoinHandle>: TRUE = Some
    nTasks,         \* number of live connect_to_cloud tasks
    supLast,        \* the branch the supervisor took for the last command
    \* ---- Hub: the link task (connect_to_cloud)
    linkPc,         \* "none" | "connecting" | "sleeping" | "connected"
    linkRx,         \* the task's broadcast receiver
    cloudWritten,   \* frames written on the link's write side
    cloudUp,        \* environment: the Cloud accepts connections
    \* ---- Hub: local peers (handle_client)
    peerPc, peerRx, peerGot,
    \* ---- Hub: state, durable store, MQTT
    memCloud, dbCloud, memDevices, dbDevices, mqttOut,
    ingested,       \* what the ingestion task logged, oldest first
    devicesResp,    \* the last response to GET /api/devices
    toggleResp,     \* the responses to POST /api/toggle-cloud, oldest first
    messages,       \* HubState.messages, the rolling message log
    messagesResp,   \* the last response to GET /api/messages
    cmdResults,     \* what send_device_command returned, oldest first
    opPc,           \* where each handler stands, when followed lock by lock
    lockOwner,      \* who holds the hub_state mutex and the database mutex
    \* ---- Hub: counters that bound the exploration
    nMsgs, nToggles, nFaults, nCmds,
    \* ---- Cloud (handle_connection, main loop)
    cPc, cChan, cGot, peer_map, cDevices, cMsgs,
    \* ---- the client program at a peer of the Cloud (pozor-dom-client)
    clPc,           \* "none" (another program) | "hello" | "loop" | "done"
    clOut,          \* frames the client has written, not yet read by the Cloud
    clIdx           \* how many of the frames it received the client has handled

msgVars   == <<mIn, mOut, mPc>>
supVars   == <<cmdQ, current_task, nTasks, supLast>>
linkVars  == <<linkPc, linkRx, cloudWritten, cloudUp>>
peerVars  == <<peerPc, peerRx, peerGot>>
storeVars == <<memCloud, dbCloud, memDevices, dbDevices, mqttOut,
               ingested, devicesResp, toggleResp, messages, messagesResp,
               cmdResults, opPc, lockOwner>>
cntVars   == <<nMsgs, nToggles, nFaults, nCmds>>
hubVars   == <<supVars, linkVars, peerVars, storeVars, cntVars>>
clientVars == <<clPc, clOut, clIdx>>
cloudVars == <<cPc, cChan, cGot, peer_map, cDevices, cMsgs, clientVars>>
vars      == <<msgVars, hubVars, cloudVars>>

-----------------------------------------------------------------------------
(* Bounds of the exploration *)

MaxLen     == 3   \* length of the strings given to the pure functions
MaxMsgs    == 1   \* texts injected into the Hub (peers, Cloud, MQTT)
MaxToggles == 2   \* POST /api/toggle-cloud requests
MaxFaults  == 2   \* link failures and Cloud outages/recoveries
MaxCmds    == 2   \* commands given to the supervisor apart from startup
MaxCloudMsgs == 1 \* text frames read by the Cloud
MaxOrder == 2     \* messages the Cloud handles where the order of delivery is explored
MaxTelemetry == 3 \* telemetry payloads, where ingestion is explored alone
MaxRows    == 1   \* rows in the device table before the save under test
MaxLocal   == 2   \* messages handled where the Hub is explored without a link
MaxFrames  == 2   \* frames read where frames other than text are explored
MaxAdds    == 103 \* calls of add_message

-----------------------------------------------------------------------------
(* Strings *)

Whitespace == {" ", "\t"}

HUB_BROADCAST_PREFIX ==
    <<"H","U","B","_","B","R","O","A","D","C","A","S","T",":">>
CLOUD_PREFIX    == <<"[","C","L","O","U","D","]">>
HUB_PREFIX      == <<"[","H","U","B","]">>
RECEIVED_SUFFIX == <<"r","e","c","e","i","v","e","d",":">>

\* str::starts_with
StartsWith(s, p) ==
    Len(s) >= Len(p) /\ SubSeq(s, 1, Len(p)) = p

\* str::strip_prefix(p).unwrap_or(s)
StripPrefixOr(s, p) ==
    IF StartsWith(s, p) THEN SubSeq(s, Len(p) + 1, Len(s)) ELSE s

\* str::contains
Contains(s, p) ==
    \E i \in 1..(Len(s) - Len(p) + 1) : SubSeq(s, i, i + Len(p) - 1) = p

RECURSIVE TrimStart(_)
TrimStart(s) ==
    IF s # <<>> /\ Head(s) \in Whitespace THEN TrimStart(Tail(s)) ELSE s

RECURSIVE TrimEnd(_)
TrimEnd(s) ==
    IF s # <<>> /\ s[Len(s)] \in Whitespace
    THEN TrimEnd(SubSeq(s, 1, Len(s) - 1))
    ELSE s

\* str::trim
Trim(s) == TrimEnd(TrimStart(s))

is_hub_broadcast(msg) == StartsWith(msg, HUB_BROADCAST_PREFIX)

extract_hub_broadcast(msg) == Trim(StripPrefixOr(msg, HUB_BROADCAST_PREFIX))

\* format!("{} {}", HUB_BROADCAST_PREFIX, content)
create_hub_broadcast(content) == HUB_BROADCAST_PREFIX \o <<" ">> \o content

is_response_message(msg) == Contains(msg, RECEIVED_SUFFIX)

create_cloud_message(content) == CLOUD_PREFIX \o <<" ">> \o content

create_hub_message(content) == HUB_PREFIX \o <<" ">> \o content

-----------------------------------------------------------------------------
(* The pure functions applied to bounded inputs *)

MsgAlphabet == {" ", "a", ":"}

RECURSIVE SeqsUpTo(_, _)
SeqsUpTo(S, n) ==
    IF n = 0 THEN {<<>>}
    ELSE LET shorter == SeqsUpTo(S, n - 1)
         IN  shorter \cup {Append(s, c) : s \in shorter, c \in S}

MsgInputs == SeqsUpTo(MsgAlphabet, MaxLen)

MsgInit == mIn \in MsgInputs /\ mOut = <<>> /\ mPc = "start"

MsgTag ==
    /\ mPc = "start"
    /\ mOut' = create_hub_broadcast(mIn)
    /\ mPc' = "tagged"
    /\ UNCHANGED mIn
    /\ UNCHANGED <<hubVars, cloudVars>>

MsgStrip ==
    /\ mPc = "tagged"
    /\ mOut' = extract_hub_broadcast(mOut)
    /\ mPc' = "stripped"
    /\ UNCHANGED mIn
    /\ UNCHANGED <<hubVars, cloudVars>>

MsgIdle == mIn = <<>> /\ mOut = <<>> /\ mPc = "off"

-----------------------------------------------------------------------------
(* JSON documents (serde_json) *)

Str(v) == [t |-> "str", v |-> v]
Num(n) == [t |-> "num", v |-> n]

TelemetryDoc(id, temp) ==
    [device_id |-> Str(id), channel |-> Str("WiFi"), temperature |-> Str(temp),
     humidity |-> Str("55.00"), signal_strength |-> Num(-45),
     timestamp |-> Str("2024-01-01T00:00:00Z")]

\* The documents that occur in the explored runs, by token.
JsonDoc ==
    [ J_tel_d1_21 |-> TelemetryDoc("d1", "21.00"),
      J_tel_d1_22 |-> TelemetryDoc("d1", "22.00"),
      J_tel_d2_21 |-> TelemetryDoc("d2", "21.00"),
      J_tel_no_ts |->
        [device_id |-> Str("d1"), channel |-> Str("WiFi"),
         temperature |-> Str("23.00"), humidity |-> Str("55.00"),
         signal_strength |-> Num(-45)],
      J_cmd_on |->
        [type |-> Str("command"), device_id |-> Str("d1"),
         channel |-> Str("WiFi"), action |-> Str("on")],
      J_cmd_no_action |->
        [type |-> Str("command"), device_id |-> Str("d1"),
         channel |-> Str("WiFi")],
      J_cmd_num_action |->
        [type |-> Str("command"), device_id |-> Str("d1"),
         channel |-> Str("WiFi"), action |-> Num(1)],
      J_cmd_no_device |->
        [type |-> Str("command"), channel |-> Str("WiFi"), action |-> Str("on")] ]

NoJson == [err |-> Str("not json")]

\* serde_json::from_str::<Value>: one document, surrounding whitespace allowed
ParseValue(text) ==
    LET t == Trim(text)
    IN  IF Len(t) = 1 /\ t[1] \in DOMAIN JsonDoc
        THEN [ok |-> TRUE, val |-> JsonDoc[t[1]]]
        ELSE [ok |-> FALSE, val |-> NoJson]

HasStr(obj, f) == f \in DOMAIN obj /\ obj[f].t = "str"
HasNum(obj, f) == f \in DOMAIN obj /\ obj[f].t = "num"

\* #[derive(Deserialize)] struct DeviceTelemetry: every field is required
IsDeviceTelemetry(obj) ==
    /\ HasStr(obj, "device_id")
    /\ HasStr(obj, "channel")
    /\ HasStr(obj, "temperature")
    /\ HasStr(obj, "humidity")
    /\ HasNum(obj, "signal_strength")
    /\ HasStr(obj, "timestamp")

\* serde_json::from_str::<DeviceTelemetry>
ParseTelemetry(text) ==
    LET p == ParseValue(text)
    IN  p.ok /\ IsDeviceTelemetry(p.val)

TelemetryOf(text) ==
    LET o == ParseValue(text).val
    IN  [device_id |-> o.device_id.v, channel |-> o.channel.v,
         temperature |-> o.temperature.v, humidity |-> o.humidity.v,
         signal_strength |-> o.signal_strength.v, timestamp |-> o.timestamp.v]

\* Mutant: an existing key keeps its value
MapInsert_KeepFirst(m, k, v) ==
    [x \in (DOMAIN m) \cup {k} |-> IF x \in DOMAIN m THEN m[x] ELSE v]

\* HashMap::insert / INSERT OR REPLACE keyed by device_id
MapInsert(m, k, v) == [x \in (DOMAIN m) \cup {k} |-> IF x = k THEN v ELSE m[x]]

\* Mutant: a device already in the map keeps its first sample
update_device_KeepOld(devices, telemetry) ==
    IF telemetry.device_id \in DOMAIN devices THEN devices
    ELSE MapInsert(devices, telemetry.device_id, telemetry)

\* HubState::update_device
update_device(devices, telemetry) == MapInsert(devices, telemetry.device_id, telemetry)

EmptyMap == [x \in {} |-> x]

-----------------------------------------------------------------------------
(* The device table (database.rs, SQLite through rusqlite) *)

Digits == <<"0", "1", "2", "3", "4", "5", "6", "7", "8", "9">>

RECURSIVE NatString(_)
NatString(n) ==
    IF n < 10 THEN <<Digits[n + 1]>>
    ELSE Append(NatString(n \div 10), Digits[(n % 10) + 1])

\* i32::to_string
to_string(n) == IF n < 0 THEN <<"-">> \o NatString(-n) ELSE NatString(n)

IsDigits(s) == s # <<>> /\ \A i \in DOMAIN s : \E d \in DOMAIN Digits : Digits[d] = s[i]

DigitValue(c) == (CHOOSE d \in DOMAIN Digits : Digits[d] = c) - 1

RECURSIVE NatValue(_)
NatValue(s) ==
    IF s = <<>> THEN 0
    ELSE 10 * NatValue(SubSeq(s, 1, Len(s) - 1)) + DigitValue(s[Len(s)])

\* Mutant: the column keeps every text parameter as text
IntegerAffinity_Text(text) == Str(text)

\* A column declared INTEGER: a text parameter that is a well-formed integer
\* literal is stored as an integer, any other text is stored as text
IntegerAffinity(text) ==
    IF IsDigits(text) THEN Num(NatValue(text))
    ELSE IF Len(text) > 1 /\ Head(text) = "-" /\ IsDigits(Tail(text))
         THEN Num(0 - NatValue(Tail(text)))
         ELSE Str(text)

\* The seven values of the INSERT OR REPLACE, as the table stores them
DeviceRow(telemetry, now) ==
    [device_id       |-> Str(telemetry.device_id),
     channel         |-> Str(telemetry.channel),
     temperature     |-> Str(telemetry.temperature),
     humidity        |-> Str(telemetry.humidity),
     signal_strength |-> IntegerAffinity(to_string(telemetry.signal_strength)),
     timestamp       |-> Str(telemetry.timestamp),
     last_seen       |-> Str(now)]

\* Database::save_device, when the statement succeeds: device_id is the
\* primary key, so the row replaces the one with the same device_id
save_device(table, telemetry, now) ==
    MapInsert(table, telemetry.device_id, DeviceRow(telemetry, now))

\* row.get(i)? of the six selected columns: String columns want text, the
\* i32 column wants an integer
RowReadable(row) ==
    /\ row.device_id.t = "str" /\ row.channel.t = "str"
    /\ row.temperature.t = "str" /\ row.humidity.t = "str"
    /\ row.signal_strength.t = "num" /\ row.timestamp.t = "str"

FromRow(row) ==
    [device_id |-> row.device_id.v, channel |-> row.channel.v,
     temperature |-> row.temperature.v, humidity |-> row.humidity.v,
     signal_strength |-> row.signal_strength.v, timestamp |-> row.timestamp.v]

\* Database::load_devices, when the query succeeds: the rows (in the order
\* of last_seen, which the map forgets) are inserted under their device_id;
\* a row that cannot be read fails the whole load
load_devices(table) ==
    LET rows == {table[k] : k \in DOMAIN table}
    IN  IF \A row \in rows : RowReadable(row)
        THEN [ok |-> TRUE,
              devices |-> [id \in {row.device_id.v : row \in rows} |->
                             FromRow(CHOOSE row \in rows : row.device_id.v = id)]]
        ELSE [ok |-> FALSE, devices |-> EmptyMap]

-----------------------------------------------------------------------------
(* save_device and load_devices applied to bounded inputs *)

DeviceIds == {"d1", "d2"}

\* The valid DeviceTelemetry values given to save_device
Telemetries ==
    [device_id : DeviceIds, channel : {"WiFi"}, temperature : {"21.00", "-3.50"},
     humidity : {"55.00"}, signal_strength : {0 - 45, 0, 120},
     timestamp : {"2024-01-01T00:00:00Z"}]

\* The contents the table can have after up to n saves
RECURSIVE TablesUpTo(_)
TablesUpTo(n) ==
    IF n = 0 THEN {EmptyMap}
    ELSE LET fewer == TablesUpTo(n - 1)
         IN  fewer \cup {save_device(table, t, 0) : table \in fewer, t \in Telemetries}

StoreInit ==
    /\ mIn \in [telemetry : Telemetries, table : TablesUpTo(MaxRows)]
    /\ mOut = <<>>
    /\ mPc = "start"

StoreSave ==
    /\ mPc = "start"
    /\ mOut' = save_device(mIn.table, mIn.telemetry, 1)
    /\ mPc' = "saved"
    /\ UNCHANGED mIn
    /\ UNCHANGED <<hubVars, cloudVars>>

StoreLoad ==
    /\ mPc = "saved"
    /\ mOut' = load_devices(mOut)
    /\ mPc' = "loaded"
    /\ UNCHANGED mIn
    /\ UNCHANGED <<hubVars, cloudVars>>

-----------------------------------------------------------------------------
(* Hub: the broadcast bus (tokio::sync::broadcast, capacity 100) *)

BUS_CAPACITY == 100

\* The local peers that may connect: a sender and one other
Peers == {"p1", "p2"}

\* A message on the bus is the String sent; src records who published it and
\* is read by no action.
BusMsg(text, src) == [text |-> text, src |-> src]

\* One receiver's queue after a send: a receiver that lags by more than the
\* capacity loses its oldest message.
Enqueue(q, m) ==
    IF Len(q) < BUS_CAPACITY THEN Append(q, m) ELSE Append(Tail(q), m)

\* handle_client is in its loop for p, so its receiver is subscribed: the
\* socket is open, or its read side has yielded end-of-stream
InLoop(p) == peerPc[p] \in {"open", "ended"}

\* Mutant: the link task's receiver exists from the start of the task, so
\* it also collects what is sent before the link is established
BusSend_LinkAlways(m) ==
    /\ peerRx' = [p \in Peers |->
                    IF InLoop(p) THEN Enqueue(peerRx[p], m) ELSE peerRx[p]]
    /\ linkRx' = IF linkPc # "none" THEN Enqueue(linkRx, m) ELSE linkRx

\* Mutant: what is sent on the bus is given the hub-relay tag
BusSend_Tagged(m) ==
    LET tagged == BusMsg(create_hub_broadcast(m.text), m.src)
    IN  /\ peerRx' = [p \in Peers |->
                        IF InLoop(p) THEN Enqueue(peerRx[p], tagged)
                        ELSE peerRx[p]]
        /\ linkRx' = IF linkPc = "connected" THEN Enqueue(linkRx, tagged) ELSE linkRx

\* broadcast::Sender::send: every live receiver gets the message, the
\* publisher's own receiver included.
BusSend(m) ==
    /\ peerRx' = [p \in Peers |->
                    IF InLoop(p) THEN Enqueue(peerRx[p], m) ELSE peerRx[p]]
    /\ linkRx' = IF linkPc = "connected" THEN Enqueue(linkRx, m) ELSE linkRx

-----------------------------------------------------------------------------
(* Hub: startup (main) *)

\* Database::get_cloud_enabled with unwrap_or(true)
get_cloud_enabled(stored) == IF stored = "unset" THEN TRUE ELSE stored = "true"

\* the value Database::set_cloud_enabled writes
CloudFlagText(enabled) == IF enabled THEN "true" ELSE "false"

\* What the supervisor logged for the last command: the command, the branch
\* taken, and how many messages the aborted task had not yet forwarded
Branch(command, branch, pending) ==
    [command |-> command, branch |-> branch, pending |-> pending]

NoBranch == Branch("none", "none", 0)

\* db.get_cloud_enabled().unwrap_or(true): the stored flag, or true when the
\* read fails
StartupCloudEnabled(stored) == {get_cloud_enabled(stored), TRUE}

\* db.load_devices().unwrap_or_default(), each entry given to update_device:
\* the stored devices, or none when the read fails
StartupDevices(table) == {load_devices(table).devices, EmptyMap}

\* No HTTP response yet
NoResponse == [status |-> 0, body |-> {}]

\* The handlers that are followed lock by lock: two concurrent requests to
\* POST /api/toggle-cloud, the ingestion task, a request to GET /api/devices
\* and a request to GET /api/messages
Togglers == {"toggle1", "toggle2"}
Ops == Togglers \cup {"ingest", "devices", "messages"}

\* Arc<Mutex<HubState>> (tokio) and Database.conn (std::sync::Mutex)
Locks == {"hub_state", "db"}

\* a handler's position and what it keeps in its local variables
OpAt(at, arg) == [at |-> at, arg |-> arg]
AtRest == OpAt("idle", <<>>)

HubInit ==
    /\ dbCloud \in {"unset", "true", "false"}
    /\ memCloud \in StartupCloudEnabled(dbCloud)
    /\ cmdQ = IF memCloud THEN <<"Connect">> ELSE <<>>
    /\ current_task = FALSE
    /\ nTasks = 0
    /\ linkPc = "none"
    /\ linkRx = <<>>
    /\ cloudWritten = <<>>
    /\ cloudUp \in BOOLEAN
    /\ peerPc = [p \in Peers |-> "idle"]
    /\ peerRx = [p \in Peers |-> <<>>]
    /\ peerGot = [p \in Peers |-> <<>>]
    /\ dbDevices = EmptyMap
    /\ memDevices \in StartupDevices(dbDevices)
    /\ mqttOut = <<>>
    /\ ingested = <<>>
    /\ devicesResp = NoResponse
    /\ toggleResp = <<>>
    /\ messages = <<>>
    /\ messagesResp = NoResponse
    /\ cmdResults = <<>>
    /\ opPc = [o \in Ops |-> AtRest]
    /\ lockOwner = [l \in Locks |-> "free"]
    /\ nMsgs = 0
    /\ nToggles = 0
    /\ nFaults = 0
    /\ nCmds = 0
    /\ supLast = NoBranch

HubIdle ==
    /\ dbCloud = "unset" /\ memCloud = FALSE /\ cmdQ = <<>>
    /\ current_task = FALSE /\ nTasks = 0
    /\ linkPc = "none" /\ linkRx = <<>> /\ cloudWritten = <<>> /\ cloudUp = FALSE
    /\ peerPc = [p \in Peers |-> "idle"]
    /\ peerRx = [p \in Peers |-> <<>>]
    /\ peerGot = [p \in Peers |-> <<>>]
    /\ dbDevices = EmptyMap /\ memDevices = EmptyMap /\ mqttOut = <<>>
    /\ ingested = <<>> /\ devicesResp = NoResponse /\ toggleResp = <<>>
    /\ messages = <<>> /\ messagesResp = NoResponse /\ cmdResults = <<>>
    /\ opPc = [o \in Ops |-> AtRest] /\ lockOwner = [l \in Locks |-> "free"]
    /\ nMsgs = 0 /\ nToggles = 0 /\ nFaults = 0 /\ nCmds = 0
    /\ supLast = NoBranch

\* The process ends and main runs again: what the process held is gone, the
\* database file and what the outside has received stay
HubRestart ==
    /\ nFaults < MaxFaults
    /\ nFaults' = nFaults + 1
    /\ memCloud' \in StartupCloudEnabled(dbCloud)
    /\ cmdQ' = IF memCloud' THEN <<"Connect">> ELSE <<>>
    /\ current_task' = FALSE
    /\ nTasks' = 0
    /\ supLast' = NoBranch
    /\ linkPc' = "none"
    /\ linkRx' = <<>>
    /\ peerPc' = [p \in Peers |-> IF peerPc[p] = "idle" THEN "idle" ELSE "closed"]
    /\ peerRx' = [p \in Peers |-> <<>>]
    /\ memDevices' \in StartupDevices(dbDevices)
    /\ messages' = <<>>
    /\ opPc' = [o \in Ops |-> AtRest]
    /\ lockOwner' = [l \in Locks |-> "free"]
    /\ UNCHANGED <<cloudWritten, cloudUp, peerGot, dbCloud, dbDevices, mqttOut,
                   ingested, devicesResp, toggleResp, messagesResp, cmdResults,
                   nMsgs, nToggles, nCmds>>
    /\ UNCHANGED <<msgVars, cloudVars>>

\* main, run over the database file earlier runs have left: the device
\* table holds what up to MaxRows saves wrote, and the device map is what
\* load_devices().unwrap_or_default() gave (the link is left aside)
HubStarted ==
    /\ dbCloud = "unset" /\ memCloud = TRUE /\ cmdQ = <<"Connect">>
    /\ current_task = FALSE /\ nTasks = 0 /\ supLast = NoBranch
    /\ linkPc = "none" /\ linkRx = <<>> /\ cloudWritten = <<>> /\ cloudUp = TRUE
    /\ peerPc = [p \in Peers |-> "idle"]
    /\ peerRx = [p \in Peers |-> <<>>]
    /\ peerGot = [p \in Peers |-> <<>>]
    /\ dbDevices \in TablesUpTo(MaxRows)
    /\ memDevices \in StartupDevices(dbDevices)
    /\ mqttOut = <<>> /\ ingested = <<>> /\ devicesResp = NoResponse
    /\ toggleResp = <<>> /\ messages = <<>> /\ messagesResp = NoResponse
    /\ cmdResults = <<>>
    /\ opPc = [o \in Ops |-> AtRest] /\ lockOwner = [l \in Locks |-> "free"]
    /\ nMsgs = 0 /\ nToggles = 0 /\ nFaults = 0 /\ nCmds = 0

-----------------------------------------------------------------------------
(* Hub: cloud link supervisor (manage_cloud_connection) *)

\* Mutant: Connect spawns a task without looking at current_task
SupConnect_NoGuard ==
    /\ cmdQ # <<>> /\ Head(cmdQ) = "Connect"
    /\ cmdQ' = Tail(cmdQ)
    /\ supLast' = Branch("Connect", "spawned", 0)
    /\ current_task' = TRUE
    /\ nTasks' = nTasks + 1
    /\ linkPc' = "connecting"
    /\ UNCHANGED <<linkRx, cloudWritten, cloudUp>>
    /\ UNCHANGED <<peerVars, storeVars, cntVars>>
    /\ UNCHANGED <<msgVars, cloudVars>>

\* CloudCommand::Connect: nothing if a task exists, else spawn the link task
SupConnect ==
    /\ cmdQ # <<>> /\ Head(cmdQ) = "Connect"
    /\ cmdQ' = Tail(cmdQ)
    /\ IF current_task
       THEN /\ supLast' = Branch("Connect", "ignored", 0)
            /\ UNCHANGED <<current_task, nTasks, linkVars>>
       ELSE /\ supLast' = Branch("Connect", "spawned", 0)
            /\ current_task' = TRUE
            /\ nTasks' = nTasks + 1
            /\ linkPc' = "connecting"
            /\ UNCHANGED <<linkRx, cloudWritten, cloudUp>>
    /\ UNCHANGED <<peerVars, storeVars, cntVars>>
    /\ UNCHANGED <<msgVars, cloudVars>>

\* Mutant: Disconnect drops the handle and leaves the task running
SupDisconnect_NoAbort ==
    /\ cmdQ # <<>> /\ Head(cmdQ) = "Disconnect"
    /\ cmdQ' = Tail(cmdQ)
    /\ IF current_task
       THEN /\ supLast' = Branch("Disconnect", "aborted", Len(linkRx))
            /\ current_task' = FALSE
            /\ UNCHANGED <<nTasks, linkVars>>
       ELSE /\ supLast' = Branch("Disconnect", "noop", 0)
            /\ UNCHANGED <<current_task, nTasks, linkVars>>
    /\ UNCHANGED <<peerVars, storeVars, cntVars>>
    /\ UNCHANGED <<msgVars, cloudVars>>

\* CloudCommand::Disconnect: current_task.take() and JoinHandle::abort; the
\* aborted task's receiver is dropped with what it still holds
SupDisconnect ==
    /\ cmdQ # <<>> /\ Head(cmdQ) = "Disconnect"
    /\ cmdQ' = Tail(cmdQ)
    /\ IF current_task
       THEN /\ supLast' = Branch("Disconnect", "aborted", Len(linkRx))
            /\ current_task' = FALSE
            /\ nTasks' = nTasks - 1
            /\ linkPc' = "none"
            /\ linkRx' = <<>>
            /\ UNCHANGED <<cloudWritten, cloudUp>>
       ELSE /\ supLast' = Branch("Disconnect", "noop", 0)
            /\ UNCHANGED <<current_task, nTasks, linkVars>>
    /\ UNCHANGED <<peerVars, storeVars, cntVars>>
    /\ UNCHANGED <<msgVars, cloudVars>>

\* cloud_tx.send: a command reaches the supervisor's channel, whatever the
\* state of the link
SupCommand(command) ==
    /\ nCmds < MaxCmds
    /\ nCmds' = nCmds + 1
    /\ cmdQ' = Append(cmdQ, command)
    /\ UNCHANGED <<current_task, nTasks, supLast, linkVars, peerVars, storeVars,
                   nMsgs, nToggles, nFaults>>
    /\ UNCHANGED <<msgVars, cloudVars>>

-----------------------------------------------------------------------------
(* Hub: the link task (connect_to_cloud) *)

\* connect_async succeeds: split the stream, subscribe to the bus
LinkConnectOk ==
    /\ linkPc = "connecting" /\ cloudUp
    /\ linkPc' = "connected"
    /\ linkRx' = <<>>
    /\ UNCHANGED <<cloudWritten, cloudUp, supVars, peerVars, storeVars, cntVars>>
    /\ UNCHANGED <<msgVars, cloudVars>>

\* Mutant: a failed connect ends the task instead of sleeping and retrying
LinkConnectFail_GiveUp ==
    /\ linkPc = "connecting" /\ ~cloudUp
    /\ linkPc' = "exited"
    /\ UNCHANGED <<linkRx, cloudWritten, cloudUp, supVars, peerVars, storeVars, cntVars>>
    /\ UNCHANGED <<msgVars, cloudVars>>

\* connect_async fails: log, then sleep 5 s
LinkConnectFail ==
    /\ linkPc = "connecting" /\ ~cloudUp
    /\ linkPc' = "sleeping"
    /\ UNCHANGED <<linkRx, cloudWritten, cloudUp, supVars, peerVars, storeVars, cntVars>>
    /\ UNCHANGED <<msgVars, cloudVars>>

\* the sleep ends: next iteration of the outer loop
LinkWake ==
    /\ linkPc = "sleeping"
    /\ linkPc' = "connecting"
    /\ UNCHANGED <<linkRx, cloudWritten, cloudUp, supVars, peerVars, storeVars, cntVars>>
    /\ UNCHANGED <<msgVars, cloudVars>>

\* rx.recv() arm: write the message to the Cloud; a failed write leaves the
\* inner loop, and the outer loop connects again at once
LinkForward ==
    /\ linkPc = "connected" /\ linkRx # <<>>
    /\ \/ /\ cloudWritten' = Append(cloudWritten, Head(linkRx))
          /\ linkRx' = Tail(linkRx)
          /\ UNCHANGED <<linkPc, nFaults>>
       \/ /\ nFaults < MaxFaults
          /\ nFaults' = nFaults + 1
          /\ linkPc' = "connecting"
          /\ linkRx' = <<>>
          /\ UNCHANGED cloudWritten
    /\ UNCHANGED <<cloudUp, supVars, peerVars, storeVars, nMsgs, nToggles, nCmds>>
    /\ UNCHANGED <<msgVars, cloudVars>>

\* The texts the Cloud sends down the link
CloudTexts == { <<"h","i">>, create_hub_broadcast(<<"y","o">>) }

\* read.next() arm, Message::Text: publish it on the bus
LinkRecv(text) ==
    /\ linkPc = "connected"
    /\ nMsgs < MaxMsgs
    /\ nMsgs' = nMsgs + 1
    /\ BusSend(BusMsg(text, "cloud"))
    /\ UNCHANGED <<linkPc, cloudWritten, cloudUp, supVars, peerPc, peerGot,
                   storeVars, nToggles, nFaults, nCmds>>
    /\ UNCHANGED <<msgVars, cloudVars>>

\* read.next() arm, Some(Err(_)) | None: leave the inner loop; the outer
\* loop connects again at once
LinkDrop ==
    /\ linkPc = "connected"
    /\ nFaults < MaxFaults
    /\ nFaults' = nFaults + 1
    /\ linkPc' = "connecting"
    /\ linkRx' = <<>>
    /\ UNCHANGED <<cloudWritten, cloudUp, supVars, peerVars, storeVars, nMsgs, nToggles,
                   nCmds>>
    /\ UNCHANGED <<msgVars, cloudVars>>

\* environment: the Cloud goes away or comes back
CloudFlip ==
    /\ nFaults < MaxFaults
    /\ nFaults' = nFaults + 1
    /\ cloudUp' = ~cloudUp
    /\ UNCHANGED <<linkPc, linkRx, cloudWritten, supVars, peerVars, storeVars,
                   nMsgs, nToggles, nCmds>>
    /\ UNCHANGED <<msgVars, cloudVars>>

-----------------------------------------------------------------------------
(* Hub: local peers (handle_client) and command dispatch (mqtt.rs) *)

\* The texts a local peer sends
PeerTexts == { <<"h","i">>, <<"J_cmd_on">>, <<"J_cmd_no_action">> }

\* json["type"].as_str() == Some("command")
IsCommand(text) ==
    LET p == ParseValue(text)
    IN  p.ok /\ HasStr(p.val, "type") /\ p.val["type"].v = "command"

\* Mutant: the action field is not looked at
CommandWellFormed_NoAction(obj) ==
    HasStr(obj, "device_id") /\ HasStr(obj, "channel")

\* send_device_command: Ok exactly when the three fields are strings
CommandWellFormed(obj) ==
    HasStr(obj, "device_id") /\ HasStr(obj, "channel") /\ HasStr(obj, "action")

\* format!("pozor-dom/hub/command/{}", device_id); the payload is the
\* document re-serialised (command.to_string()), the same document token
CommandPublish(text) ==
    LET o == ParseValue(text).val
    IN  [topic |-> <<"pozor-dom/hub/command/", o.device_id.v>>, payload |-> Trim(text)]

\* accept_async: on success split the stream and subscribe to the bus
HubAccept(p) ==
    /\ peerPc[p] = "idle"
    /\ \/ peerPc' = [peerPc EXCEPT ![p] = "open"]
       \/ peerPc' = [peerPc EXCEPT ![p] = "closed"]
    /\ UNCHANGED <<peerRx, peerGot, supVars, linkVars, storeVars, cntVars>>
    /\ UNCHANGED <<msgVars, cloudVars>>

\* send_device_command: publish and Ok(()) when the command is well formed,
\* else Err("Invalid command format") and nothing published
send_device_command(text) ==
    IF CommandWellFormed(ParseValue(text).val)
    THEN /\ mqttOut' = Append(mqttOut, CommandPublish(text))
         /\ cmdResults' = Append(cmdResults, "Ok")
    ELSE /\ UNCHANGED mqttOut
         /\ cmdResults' = Append(cmdResults, "Invalid command format")

\* read.next() arm, Message::Text: dispatch a command (an error is logged
\* and dropped), then publish the text.  limit is the number of messages
\* the exploration lets the Hub handle.
HandlePeerText(p, text, limit) ==
    /\ peerPc[p] = "open"
    /\ nMsgs < limit
    /\ nMsgs' = nMsgs + 1
    /\ IF IsCommand(text)
       THEN send_device_command(text)
       ELSE UNCHANGED <<mqttOut, cmdResults>>
    /\ BusSend(BusMsg(text, p))
    /\ UNCHANGED <<peerPc, peerGot, supVars, linkPc, cloudWritten, cloudUp,
                   memCloud, dbCloud, memDevices, dbDevices, ingested, devicesResp,
                   toggleResp, messages, messagesResp, opPc, lockOwner,
                   nToggles, nFaults, nCmds>>
    /\ UNCHANGED <<msgVars, cloudVars>>

HubPeerText(p, text) == HandlePeerText(p, text, MaxMsgs)

\* The texts a local peer sends where the Hub is explored without a link:
\* also commands with a field of the wrong type or without device_id
LocalTexts ==
    PeerTexts \cup { <<"J_cmd_num_action">>, <<"J_cmd_no_device">> }

HubPeerTextLocal(p, text) == HandlePeerText(p, text, MaxLocal)

\* The frames a peer sends that are neither Text nor Close
OtherFrames == {"Binary", "Ping", "Pong"}

\* where frames other than text are explored
HubPeerTextFrames(p, text) == HandlePeerText(p, text, MaxFrames)

\* read.next() arm, `_ => {}`: a frame that is neither Text nor Close is
\* dropped and the loop goes on
HubPeerOther(p, frame) ==
    /\ peerPc[p] = "open"
    /\ nMsgs < MaxFrames
    /\ nMsgs' = nMsgs + 1
    /\ UNCHANGED <<peerVars, supVars, linkVars, storeVars, nToggles, nFaults, nCmds>>
    /\ UNCHANGED <<msgVars, cloudVars>>

\* read.next() arm, Message::Close or Some(Err): leave the loop; the
\* receiver is dropped with the handler
HubPeerClose(p) ==
    /\ peerPc[p] = "open"
    /\ peerPc' = [peerPc EXCEPT ![p] = "closed"]
    /\ peerRx' = [peerRx EXCEPT ![p] = <<>>]
    /\ UNCHANGED <<peerGot, supVars, linkVars, storeVars, cntVars>>
    /\ UNCHANGED <<msgVars, cloudVars>>

\* read.next() arm, None (the stream has ended): the arm `_ => {}` takes
\* it, so the handler stays in its loop with its receiver; every later poll
\* of read.next() yields None again and changes nothing
HubPeerEnd(p) ==
    /\ peerPc[p] = "open"
    /\ peerPc' = [peerPc EXCEPT ![p] = "ended"]
    /\ UNCHANGED <<peerRx, peerGot, supVars, linkVars, storeVars, cntVars>>
    /\ UNCHANGED <<msgVars, cloudVars>>

\* rx.recv() arm: write the message to the peer; a failed write leaves the loop
HubPeerDeliver(p) ==
    /\ InLoop(p) /\ peerRx[p] # <<>>
    /\ \/ /\ peerGot' = [peerGot EXCEPT ![p] = Append(@, Head(peerRx[p]))]
          /\ peerRx' = [peerRx EXCEPT ![p] = Tail(@)]
          /\ UNCHANGED peerPc
       \/ /\ peerPc' = [peerPc EXCEPT ![p] = "closed"]
          /\ peerRx' = [peerRx EXCEPT ![p] = <<>>]
          /\ UNCHANGED peerGot
    /\ UNCHANGED <<supVars, linkVars, storeVars, cntVars>>
    /\ UNCHANGED <<msgVars, cloudVars>>

-----------------------------------------------------------------------------
(* Hub: telemetry ingestion (listen_and_process_telemetry) *)

\* The payloads published on pozor-dom/device/+/telemetry
TelemetryPayloads ==
    { <<"J_tel_d1_21">>, <<"J_tel_d1_22">>, <<"J_tel_d2_21">>, <<"J_tel_no_ts">>,
      <<"o","o","p","s">> }

\* Utc::now(): the messages handled so far serve as the clock
Now == nMsgs

\* One line of the ingestion task's log: the payload, whether it parsed
\* ("Successfully parsed" / "Failed to parse") and whether the save went
\* through (no "Failed to save device")
IngestLog(payload, parsed, saved) ==
    [payload |-> payload, parsed |-> parsed, saved |-> saved]

\* Mutant: a payload that does not parse is stored as a device of its own
ProcessTelemetry_StoreRaw(payload, limit) ==
    LET raw == [device_id |-> "raw", channel |-> "", temperature |-> "",
                humidity |-> "", signal_strength |-> 0, timestamp |-> ""]
        t   == IF ParseTelemetry(payload) THEN TelemetryOf(payload) ELSE raw
    IN  /\ nMsgs < limit
        /\ nMsgs' = nMsgs + 1
        /\ dbDevices' = save_device(dbDevices, t, Now)
        /\ memDevices' = update_device(memDevices, t)
        /\ ingested' = Append(ingested, IngestLog(payload, ParseTelemetry(payload), TRUE))
        /\ BusSend(BusMsg(payload, "mqtt"))
        /\ UNCHANGED <<peerPc, peerGot, supVars, linkPc, cloudWritten, cloudUp,
                       memCloud, dbCloud, mqttOut, devicesResp, toggleResp,
                       messages, messagesResp, cmdResults, opPc, lockOwner,
                   nToggles, nFaults, nCmds>>
        /\ UNCHANGED <<msgVars, cloudVars>>

\* Mutant: a failed save ends the handling of the payload (the error is
\* propagated instead of logged)
ProcessTelemetry_StopOnSaveError(payload, limit) ==
    /\ nMsgs < limit
    /\ nMsgs' = nMsgs + 1
    /\ IF ParseTelemetry(payload)
       THEN \/ /\ dbDevices' = save_device(dbDevices, TelemetryOf(payload), Now)
               /\ ingested' = Append(ingested, IngestLog(payload, TRUE, TRUE))
               /\ memDevices' = update_device(memDevices, TelemetryOf(payload))
               /\ BusSend(BusMsg(payload, "mqtt"))
            \/ /\ ingested' = Append(ingested, IngestLog(payload, TRUE, FALSE))
               /\ UNCHANGED <<dbDevices, memDevices, peerRx, linkRx>>
       ELSE /\ UNCHANGED <<dbDevices, memDevices>>
            /\ ingested' = Append(ingested, IngestLog(payload, FALSE, FALSE))
            /\ BusSend(BusMsg(payload, "mqtt"))
    /\ UNCHANGED <<peerPc, peerGot, supVars, linkPc, cloudWritten, cloudUp,
                   memCloud, dbCloud, mqttOut, devicesResp, toggleResp,
                   messages, messagesResp, cmdResults, opPc, lockOwner,
                   nToggles, nFaults, nCmds>>
    /\ UNCHANGED <<msgVars, cloudVars>>

\* Incoming::Publish: parse; on success save to the database (which may
\* fail) and update the in-memory state; then send the payload on the bus.
\* limit is the number of messages the exploration lets the Hub handle.
ProcessTelemetry(payload, limit) ==
    /\ nMsgs < limit
    /\ nMsgs' = nMsgs + 1
    /\ IF ParseTelemetry(payload)
       THEN /\ \/ /\ dbDevices' = save_device(dbDevices, TelemetryOf(payload), Now)
                  /\ ingested' = Append(ingested, IngestLog(payload, TRUE, TRUE))
               \/ /\ UNCHANGED dbDevices
                  /\ ingested' = Append(ingested, IngestLog(payload, TRUE, FALSE))
            /\ memDevices' = update_device(memDevices, TelemetryOf(payload))
       ELSE /\ UNCHANGED <<dbDevices, memDevices>>
            /\ ingested' = Append(ingested, IngestLog(payload, FALSE, FALSE))
    /\ BusSend(BusMsg(payload, "mqtt"))
    /\ UNCHANGED <<peerPc, peerGot, supVars, linkPc, cloudWritten, cloudUp,
                   memCloud, dbCloud, mqttOut, devicesResp, toggleResp,
                   messages, messagesResp, cmdResults, opPc, lockOwner,
                   nToggles, nFaults, nCmds>>
    /\ UNCHANGED <<msgVars, cloudVars>>

MqttTelemetry(payload) == ProcessTelemetry(payload, MaxMsgs)

\* where ingestion is explored without local peers and without the link
MqttTelemetryAlone(payload) == ProcessTelemetry(payload, MaxTelemetry)

\* where ingestion is explored with local peers and without the link
MqttTelemetryLocal(payload) == ProcessTelemetry(payload, MaxLocal)

-----------------------------------------------------------------------------
(* Hub: GET /api/devices (api_devices) *)

\* the JSON array of the loaded devices with 200, or [] with 500
DevicesResponse(loaded) ==
    IF loaded.ok
    THEN [status |-> 200, body |-> {loaded.devices[id] : id \in DOMAIN loaded.devices}]
    ELSE [status |-> 500, body |-> {}]

LoadFailed == [ok |-> FALSE, devices |-> EmptyMap]

api_devices ==
    /\ \/ devicesResp' = DevicesResponse(load_devices(dbDevices))
       \/ devicesResp' = DevicesResponse(LoadFailed)
    /\ UNCHANGED <<memCloud, dbCloud, memDevices, dbDevices, mqttOut, ingested,
                   toggleResp, messages, messagesResp, cmdResults, opPc, lockOwner>>
    /\ UNCHANGED <<supVars, linkVars, peerVars, cntVars>>
    /\ UNCHANGED <<msgVars, cloudVars>>

-----------------------------------------------------------------------------
(* Hub: GET /api/messages (get_messages) *)

\* Mutant: the route is served by get_messages_protected, the handler that
\* refuses with 403 while cloud_enabled is false
get_messages_protected ==
    /\ messagesResp' = IF ~memCloud
                       THEN [status |-> 403, body |-> <<"Cloud access disabled">>]
                       ELSE [status |-> 200, body |-> messages]
    /\ UNCHANGED <<memCloud, dbCloud, memDevices, dbDevices, mqttOut, ingested,
                   devicesResp, toggleResp, messages, cmdResults, opPc, lockOwner>>
    /\ UNCHANGED <<supVars, linkVars, peerVars, cntVars>>
    /\ UNCHANGED <<msgVars, cloudVars>>

\* warp::reply::json(&state.messages): the message log, with 200
get_messages ==
    /\ messagesResp' = [status |-> 200, body |-> messages]
    /\ UNCHANGED <<memCloud, dbCloud, memDevices, dbDevices, mqttOut, ingested,
                   devicesResp, toggleResp, messages, cmdResults, opPc, lockOwner>>
    /\ UNCHANGED <<supVars, linkVars, peerVars, cntVars>>
    /\ UNCHANGED <<msgVars, cloudVars>>

-----------------------------------------------------------------------------
(* Hub: POST /api/toggle-cloud (toggle_cloud) *)

\* Mutant: the toggle switches the flag on whatever it was
toggle_cloud_set(cloud_enabled) == TRUE

\* HubState::toggle_cloud
toggle_cloud(cloud_enabled) == ~cloud_enabled

\* the JSON object of the reply
ToggleResponse(is_now_enabled) == [cloud_enabled |-> is_now_enabled]

\* Mutant: the toggle sends no command to the supervisor
ToggleCloud_NoCommand ==
    /\ nToggles < MaxToggles
    /\ nToggles' = nToggles + 1
    /\ memCloud' = toggle_cloud(memCloud)
    /\ dbCloud' = CloudFlagText(toggle_cloud(memCloud))
    /\ toggleResp' = Append(toggleResp, ToggleResponse(toggle_cloud(memCloud)))
    /\ UNCHANGED <<supVars, linkVars, peerVars, memDevices, dbDevices, mqttOut,
                   ingested, devicesResp, messages, messagesResp, cmdResults, opPc, lockOwner,
                   nMsgs, nFaults, nCmds>>
    /\ UNCHANGED <<msgVars, cloudVars>>

\* The handler holds the hub_state lock from its first line to its last:
\* flip the flag, write it to the database (which may fail), send the
\* command that matches the change, reply
ToggleCloud ==
    LET was_enabled    == memCloud
        is_now_enabled == toggle_cloud(memCloud)
    IN  /\ nToggles < MaxToggles
        /\ nToggles' = nToggles + 1
        /\ memCloud' = is_now_enabled
        /\ \/ dbCloud' = CloudFlagText(is_now_enabled)
           \/ UNCHANGED dbCloud
        /\ cmdQ' = IF ~was_enabled /\ is_now_enabled THEN Append(cmdQ, "Connect")
                   ELSE IF was_enabled /\ ~is_now_enabled THEN Append(cmdQ, "Disconnect")
                   ELSE cmdQ
        /\ toggleResp' = Append(toggleResp, ToggleResponse(is_now_enabled))
        /\ UNCHANGED <<current_task, nTasks, supLast, linkVars, peerVars, memDevices,
                       dbDevices, mqttOut, ingested, devicesResp, messages,
                       messagesResp, cmdResults, opPc, lockOwner, nMsgs, nFaults, nCmds>>
        /\ UNCHANGED <<msgVars, cloudVars>>

-----------------------------------------------------------------------------
(* Hub: the handlers followed lock by lock.  hub_state.lock().await and      *)
(* conn.lock() are steps of their own: a handler waits at them until the    *)
(* mutex is free, and the guard is released where the source drops it.      *)

Acquire(lock, o) == lockOwner' = [lockOwner EXCEPT ![lock] = o]
Release(lock)    == lockOwner' = [lockOwner EXCEPT ![lock] = "free"]
Goto(o, at, arg) == opPc' = [opPc EXCEPT ![o] = OpAt(at, arg)]

\* the locks a handler holds
Held(o) == {l \in Locks : lockOwner[l] = o}

\* the telemetry payloads given to the ingestion task here
LockPayloads == { <<"J_tel_d1_21">>, <<"J_tel_d2_21">>, <<"o","o","p","s">> }

\* Mutant: the handler flips the flag without taking the hub_state lock
ToggleLock_NoLock(o) ==
    /\ opPc[o].at = "idle"
    /\ nToggles < MaxToggles
    /\ nToggles' = nToggles + 1
    /\ memCloud' = toggle_cloud(memCloud)
    /\ Goto(o, "flipped", <<memCloud>>)
    /\ UNCHANGED <<lockOwner, supVars, linkVars, peerVars, dbCloud, memDevices,
                   dbDevices, mqttOut, ingested, devicesResp, toggleResp, messages,
                   messagesResp, cmdResults, nMsgs, nFaults, nCmds>>
    /\ UNCHANGED <<msgVars, cloudVars>>

\* toggle_cloud, hub_state.lock().await and the flip: was_enabled is kept
\* in a local variable
ToggleLock(o) ==
    /\ opPc[o].at = "idle"
    /\ nToggles < MaxToggles
    /\ lockOwner["hub_state"] = "free"
    /\ nToggles' = nToggles + 1
    /\ Acquire("hub_state", o)
    /\ memCloud' = toggle_cloud(memCloud)
    /\ Goto(o, "flipped", <<memCloud>>)
    /\ UNCHANGED <<supVars, linkVars, peerVars, dbCloud, memDevices,
                   dbDevices, mqttOut, ingested, devicesResp, toggleResp, messages,
                   messagesResp, cmdResults, nMsgs, nFaults, nCmds>>
    /\ UNCHANGED <<msgVars, cloudVars>>

\* toggle_cloud, set_cloud_enabled: conn.lock()
ToggleDbLock(o) ==
    /\ opPc[o].at = "flipped"
    /\ lockOwner["db"] = "free"
    /\ Acquire("db", o)
    /\ Goto(o, "writing", opPc[o].arg)
    /\ UNCHANGED <<supVars, linkVars, peerVars, memCloud, dbCloud, memDevices,
                   dbDevices, mqttOut, ingested, devicesResp, toggleResp, messages,
                   messagesResp, cmdResults, cntVars>>
    /\ UNCHANGED <<msgVars, cloudVars>>

\* toggle_cloud, set_cloud_enabled: the write (which may fail) and the
\* release of the connection
ToggleDbWrite(o) ==
    /\ opPc[o].at = "writing"
    /\ \/ dbCloud' = CloudFlagText(toggle_cloud(opPc[o].arg[1]))
       \/ UNCHANGED dbCloud
    /\ Release("db")
    /\ Goto(o, "persisted", opPc[o].arg)
    /\ UNCHANGED <<supVars, linkVars, peerVars, memCloud, memDevices,
                   dbDevices, mqttOut, ingested, devicesResp, toggleResp, messages,
                   messagesResp, cmdResults, cntVars>>
    /\ UNCHANGED <<msgVars, cloudVars>>

\* toggle_cloud, the command that matches the change and the reply; the
\* hub_state guard is dropped when the handler returns
ToggleReply(o) ==
    LET was_enabled    == opPc[o].arg[1]
        is_now_enabled == toggle_cloud(was_enabled)
    IN  /\ opPc[o].at = "persisted"
        /\ cmdQ' = IF ~was_enabled /\ is_now_enabled THEN Append(cmdQ, "Connect")
                   ELSE IF was_enabled /\ ~is_now_enabled THEN Append(cmdQ, "Disconnect")
                   ELSE cmdQ
        /\ toggleResp' = Append(toggleResp, ToggleResponse(is_now_enabled))
        /\ Release("hub_state")
        /\ Goto(o, "idle", <<>>)
        /\ UNCHANGED <<current_task, nTasks, supLast, linkVars, peerVars, memCloud,
                       dbCloud, memDevices, dbDevices, mqttOut, ingested, devicesResp,
                       messages, messagesResp, cmdResults, cntVars>>
        /\ UNCHANGED <<msgVars, cloudVars>>

\* listen_and_process_telemetry, a payload that does not parse: logged and
\* sent on the bus, no lock is taken
IngestUnparsed(payload) ==
    /\ opPc["ingest"].at = "idle"
    /\ nMsgs < MaxMsgs
    /\ ~ParseTelemetry(payload)
    /\ nMsgs' = nMsgs + 1
    /\ ingested' = Append(ingested, IngestLog(payload, FALSE, FALSE))
    /\ BusSend(BusMsg(payload, "mqtt"))
    /\ UNCHANGED <<opPc, lockOwner, supVars, linkPc, cloudWritten, cloudUp, peerPc,
                   peerGot, memCloud, dbCloud, memDevices, dbDevices, mqttOut,
                   devicesResp, toggleResp, messages, messagesResp, cmdResults,
                   nToggles, nFaults, nCmds>>
    /\ UNCHANGED <<msgVars, cloudVars>>

\* listen_and_process_telemetry, save_device: conn.lock()
IngestDbLock(payload) ==
    /\ opPc["ingest"].at = "idle"
    /\ nMsgs < MaxMsgs
    /\ ParseTelemetry(payload)
    /\ lockOwner["db"] = "free"
    /\ nMsgs' = nMsgs + 1
    /\ Acquire("db", "ingest")
    /\ Goto("ingest", "saving", payload)
    /\ UNCHANGED <<supVars, linkVars, peerVars, memCloud, dbCloud, memDevices,
                   dbDevices, mqttOut, ingested, devicesResp, toggleResp, messages,
                   messagesResp, cmdResults, nToggles, nFaults, nCmds>>
    /\ UNCHANGED <<msgVars, cloudVars>>

\* Mutant: the database connection is not released after the save
IngestSave_KeepDb ==
    LET payload == opPc["ingest"].arg
    IN  /\ opPc["ingest"].at = "saving"
        /\ \/ /\ dbDevices' = save_device(dbDevices, TelemetryOf(payload), Now)
              /\ ingested' = Append(ingested, IngestLog(payload, TRUE, TRUE))
           \/ /\ UNCHANGED dbDevices
              /\ ingested' = Append(ingested, IngestLog(payload, TRUE, FALSE))
        /\ Goto("ingest", "saved", payload)
        /\ UNCHANGED <<lockOwner, supVars, linkVars, peerVars, memCloud, dbCloud,
                       memDevices, mqttOut, devicesResp, toggleResp, messages,
                       messagesResp, cmdResults, cntVars>>
        /\ UNCHANGED <<msgVars, cloudVars>>

\* listen_and_process_telemetry, save_device: the write (which may fail,
\* and then is only logged) and the release of the connection
IngestSave ==
    LET payload == opPc["ingest"].arg
    IN  /\ opPc["ingest"].at = "saving"
        /\ \/ /\ dbDevices' = save_device(dbDevices, TelemetryOf(payload), Now)
              /\ ingested' = Append(ingested, IngestLog(payload, TRUE, TRUE))
           \/ /\ UNCHANGED dbDevices
              /\ ingested' = Append(ingested, IngestLog(payload, TRUE, FALSE))
        /\ Release("db")
        /\ Goto("ingest", "saved", payload)
        /\ UNCHANGED <<supVars, linkVars, peerVars, memCloud, dbCloud,
                       memDevices, mqttOut, devicesResp, toggleResp, messages,
                       messagesResp, cmdResults, cntVars>>
        /\ UNCHANGED <<msgVars, cloudVars>>

\* listen_and_process_telemetry, hub_state.lock().await
IngestStateLock ==
    /\ opPc["ingest"].at = "saved"
    /\ lockOwner["hub_state"] = "free"
    /\ Acquire("hub_state", "ingest")
    /\ Goto("ingest", "updating", opPc["ingest"].arg)
    /\ UNCHANGED <<supVars, linkVars, peerVars, memCloud, dbCloud, memDevices,
                   dbDevices, mqttOut, ingested, devicesResp, toggleResp, messages,
                   messagesResp, cmdResults, cntVars>>
    /\ UNCHANGED <<msgVars, cloudVars>>

\* listen_and_process_telemetry, update_device; the guard is dropped at
\* the end of the match arm, and the payload is then sent on the bus
IngestUpdate ==
    LET payload == opPc["ingest"].arg
    IN  /\ opPc["ingest"].at = "updating"
        /\ memDevices' = update_device(memDevices, TelemetryOf(payload))
        /\ Release("hub_state")
        /\ Goto("ingest", "idle", <<>>)
        /\ BusSend(BusMsg(payload, "mqtt"))
        /\ UNCHANGED <<supVars, linkPc, cloudWritten, cloudUp, peerPc, peerGot,
                       memCloud, dbCloud, dbDevices, mqttOut, ingested, devicesResp,
                       toggleResp, messages, messagesResp, cmdResults, cntVars>>
        /\ UNCHANGED <<msgVars, cloudVars>>

\* api_devices, load_devices: conn.lock().  One request is made.
DevicesLock ==
    /\ opPc["devices"].at = "idle"
    /\ devicesResp = NoResponse
    /\ lockOwner["db"] = "free"
    /\ Acquire("db", "devices")
    /\ Goto("devices", "loading", <<>>)
    /\ UNCHANGED <<supVars, linkVars, peerVars, memCloud, dbCloud, memDevices,
                   dbDevices, mqttOut, ingested, devicesResp, toggleResp, messages,
                   messagesResp, cmdResults, cntVars>>
    /\ UNCHANGED <<msgVars, cloudVars>>

\* api_devices, load_devices: the read (which may fail), the release of
\* the connection and the reply
DevicesLoad ==
    /\ opPc["devices"].at = "loading"
    /\ \/ devicesResp' = DevicesResponse(load_devices(dbDevices))
       \/ devicesResp' = DevicesResponse(LoadFailed)
    /\ Release("db")
    /\ Goto("devices", "idle", <<>>)
    /\ UNCHANGED <<supVars, linkVars, peerVars, memCloud, dbCloud, memDevices,
                   dbDevices, mqttOut, ingested, toggleResp, messages,
                   messagesResp, cmdResults, cntVars>>
    /\ UNCHANGED <<msgVars, cloudVars>>

\* get_messages, hub_state.lock().await.  One request is made.
MessagesLock ==
    /\ opPc["messages"].at = "idle"
    /\ messagesResp = NoResponse
    /\ lockOwner["hub_state"] = "free"
    /\ Acquire("hub_state", "messages")
    /\ Goto("messages", "reading", <<>>)
    /\ UNCHANGED <<supVars, linkVars, peerVars, memCloud, dbCloud, memDevices,
                   dbDevices, mqttOut, ingested, devicesResp, toggleResp, messages,
                   messagesResp, cmdResults, cntVars>>
    /\ UNCHANGED <<msgVars, cloudVars>>

\* get_messages, the reply; the guard is dropped when the handler returns
MessagesReply ==
    /\ opPc["messages"].at = "reading"
    /\ messagesResp' = [status |-> 200, body |-> messages]
    /\ Release("hub_state")
    /\ Goto("messages", "idle", <<>>)
    /\ UNCHANGED <<supVars, linkVars, peerVars, memCloud, dbCloud, memDevices,
                   dbDevices, mqttOut, ingested, devicesResp, toggleResp, messages,
                   cmdResults, cntVars>>
    /\ UNCHANGED <<msgVars, cloudVars>>

\* the steps of one handler
OpStep(o) ==
    \/ o \in Togglers /\ ToggleLock(o)
    \/ o \in Togglers /\ ToggleDbLock(o)
    \/ o \in Togglers /\ ToggleDbWrite(o)
    \/ o \in Togglers /\ ToggleReply(o)
    \/ o = "ingest" /\ \E payload \in LockPayloads : IngestUnparsed(payload)
    \/ o = "ingest" /\ \E payload \in LockPayloads : IngestDbLock(payload)
    \/ o = "ingest" /\ IngestSave
    \/ o = "ingest" /\ IngestStateLock
    \/ o = "ingest" /\ IngestUpdate
    \/ o = "devices" /\ DevicesLock
    \/ o = "devices" /\ DevicesLoad
    \/ o = "messages" /\ MessagesLock
    \/ o = "messages" /\ MessagesReply

-----------------------------------------------------------------------------
(* Cloud: peer registry and connection handler (pozor-dom-cloud/src/main.rs) *)

\* The addresses that may connect to the Cloud
CloudPeers == {"a1", "a2", "a3"}

\* The texts a peer sends to the Cloud
CloudPeerTexts ==
    { <<"h","i">>,
      <<"C"," ">> \o RECEIVED_SUFFIX \o <<" ","h","i">>,
      create_hub_broadcast(<<"y","o">>),
      create_hub_broadcast(<<"J_tel_d1_21">>) }

\* The lines typed on the Cloud's console (already trimmed, never empty)
CloudStdinTexts == { <<"o","k">> }

\* format!("Welcome to Pozor-dom {}!", component), component "Hub" for a
\* loopback address
create_welcome_message(component) ==
    <<"W","e","l","c","o","m","e"," ","t","o"," ","P","o","z","o","r","-","d","o","m"," ">>
    \o component \o <<"!">>

\* Mutant: the colon of "received:" is left out of the format string
create_echo_message_NoColon(component, content) ==
    component \o <<" ","r","e","c","e","i","v","e","d"," ">> \o content

\* format!("{} received: {}", component, content)
create_echo_message(component, content) ==
    component \o <<" ">> \o RECEIVED_SUFFIX \o <<" ">> \o content

\* format!("[{}] {}", addr, text)
AddrFrame(addr, text) == <<"[", addr, "]", " ">> \o text

CloudComponent == <<"H","u","b">>
CloudName      == <<"C","l","o","u","d">>

\* tx.send to each address of `to`: the message is queued on its channel
SendTo(to, frame) ==
    [a \in CloudPeers |-> IF a \in to THEN Append(cChan[a], frame) ELSE cChan[a]]

\* Mutant: the sender is not filtered out of the recipients
broadcast_recipients_all(addr) == peer_map

\* The recipients of a normal message: every registered peer but the sender
broadcast_recipients(addr) == {a \in peer_map : a # addr}

\* the clean-up at the end of handle_connection, and the closing of the
\* handler's receiver
Unregister(addr) == peer_map \ {addr}

CloudInit ==
    /\ cPc = [a \in CloudPeers |-> "idle"]
    /\ cChan = [a \in CloudPeers |-> <<>>]
    /\ cGot = [a \in CloudPeers |-> <<>>]
    /\ peer_map = {}
    /\ cDevices = EmptyMap
    /\ cMsgs = 0

\* no peer runs the client program
NoClients ==
    /\ clPc = [a \in CloudPeers |-> "none"]
    /\ clOut = [a \in CloudPeers |-> <<>>]
    /\ clIdx = [a \in CloudPeers |-> 0]

\* accept_async: on success create the channel and register the address
CloudAccept(a) ==
    /\ cPc[a] = "idle"
    /\ \/ /\ cPc' = [cPc EXCEPT ![a] = "registered"]
          /\ peer_map' = peer_map \cup {a}
       \/ /\ cPc' = [cPc EXCEPT ![a] = "closed"]
          /\ UNCHANGED peer_map
    /\ UNCHANGED <<cChan, cGot, cDevices, cMsgs, clientVars>>
    /\ UNCHANGED <<msgVars, hubVars>>

\* Mutant: a failed welcome returns without unregistering
CloudWelcome_NoRemove(a) ==
    /\ cPc[a] = "registered"
    /\ \/ /\ cPc' = [cPc EXCEPT ![a] = "open"]
          /\ cGot' = [cGot EXCEPT ![a] = Append(@, create_welcome_message(CloudComponent))]
          /\ UNCHANGED <<peer_map, cChan>>
       \/ /\ cPc' = [cPc EXCEPT ![a] = "closed"]
          /\ cChan' = [cChan EXCEPT ![a] = <<>>]
          /\ UNCHANGED <<peer_map, cGot>>
    /\ UNCHANGED <<cDevices, cMsgs, clientVars>>
    /\ UNCHANGED <<msgVars, hubVars>>

\* the welcome message; a failed send unregisters and returns
CloudWelcome(a) ==
    /\ cPc[a] = "registered"
    /\ \/ /\ cPc' = [cPc EXCEPT ![a] = "open"]
          /\ cGot' = [cGot EXCEPT ![a] = Append(@, create_welcome_message(CloudComponent))]
          /\ UNCHANGED <<peer_map, cChan>>
       \/ /\ cPc' = [cPc EXCEPT ![a] = "closed"]
          /\ peer_map' = Unregister(a)
          /\ cChan' = [cChan EXCEPT ![a] = <<>>]
          /\ UNCHANGED cGot
    /\ UNCHANGED <<cDevices, cMsgs, clientVars>>
    /\ UNCHANGED <<msgVars, hubVars>>

\* read.next() arm, Message::Text carrying the hub-relay tag
CloudHubBroadcast(a, text) ==
    LET broadcast_content == extract_hub_broadcast(text)
    IN  /\ IF ParseTelemetry(broadcast_content)
           THEN /\ cDevices' = update_device(cDevices, TelemetryOf(broadcast_content))
                /\ UNCHANGED cChan
           ELSE /\ cChan' = SendTo(peer_map, create_hub_message(broadcast_content))
                /\ UNCHANGED cDevices
        /\ UNCHANGED <<cPc, cGot, peer_map>>

\* read.next() arm, Message::Text without the tag: send to the other peers,
\* then echo to the sender unless the text is a response; a failed echo
\* leaves the loop
CloudNormal(a, text) ==
    /\ cChan' = LET sent == SendTo(broadcast_recipients(a), AddrFrame(a, text))
                IN  sent
    /\ \/ /\ UNCHANGED <<cPc, peer_map>>
          /\ cGot' = IF is_response_message(text)
                     THEN cGot
                     ELSE [cGot EXCEPT ![a] = Append(@, create_echo_message(CloudName, text))]
       \/ /\ ~is_response_message(text)
          /\ cPc' = [cPc EXCEPT ![a] = "closed"]
          /\ peer_map' = Unregister(a)
          /\ UNCHANGED cGot
    /\ UNCHANGED cDevices

\* read.next() arm, Message::Text
CloudHandleText(a, text) ==
    IF is_hub_broadcast(text) THEN CloudHubBroadcast(a, text) ELSE CloudNormal(a, text)

\* a text frame arrives from a peer that is some other program than the
\* client.  limit is the number of messages the exploration lets the Cloud
\* handle.
CloudText(a, text, limit) ==
    /\ cPc[a] = "open"
    /\ cMsgs < limit
    /\ cMsgs' = cMsgs + 1
    /\ CloudHandleText(a, text)
    /\ UNCHANGED clientVars
    /\ UNCHANGED <<msgVars, hubVars>>

CloudPeerText(a, text) == CloudText(a, text, MaxCloudMsgs)

\* where the order of delivery is explored
CloudPeerTextOrder(a, text) == CloudText(a, text, MaxOrder)

\* where frames other than text are explored
CloudPeerTextFrames(a, text) == CloudText(a, text, MaxFrames)

\* Mutant: a frame that is neither Text nor Close ends the handler
CloudPeerOther_Break(a, frame) ==
    /\ cPc[a] = "open"
    /\ cMsgs < MaxFrames
    /\ cMsgs' = cMsgs + 1
    /\ cPc' = [cPc EXCEPT ![a] = "closed"]
    /\ peer_map' = Unregister(a)
    /\ cChan' = [cChan EXCEPT ![a] = <<>>]
    /\ UNCHANGED <<cGot, cDevices, clientVars>>
    /\ UNCHANGED <<msgVars, hubVars>>

\* read.next() arm, Some(Ok(other)): the frame is logged and the loop goes on
CloudPeerOther(a, frame) ==
    /\ cPc[a] = "open"
    /\ cMsgs < MaxFrames
    /\ cMsgs' = cMsgs + 1
    /\ UNCHANGED <<cPc, cChan, cGot, peer_map, cDevices, clientVars>>
    /\ UNCHANGED <<msgVars, hubVars>>

\* a text frame that the client program at a has written arrives
CloudReadClient(a) ==
    /\ cPc[a] = "open"
    /\ clOut[a] # <<>>
    /\ CloudHandleText(a, Head(clOut[a]))
    /\ clOut' = [clOut EXCEPT ![a] = Tail(@)]
    /\ UNCHANGED <<cMsgs, clPc, clIdx>>
    /\ UNCHANGED <<msgVars, hubVars>>

\* read.next() arm, Message::Close, Some(Err) or None: leave the loop and
\* unregister
CloudPeerClose(a) ==
    /\ cPc[a] = "open"
    /\ cPc' = [cPc EXCEPT ![a] = "closed"]
    /\ peer_map' = Unregister(a)
    /\ cChan' = [cChan EXCEPT ![a] = <<>>]
    /\ UNCHANGED <<cGot, cDevices, cMsgs, clientVars>>
    /\ UNCHANGED <<msgVars, hubVars>>

\* Mutant: the handler takes the newest queued message instead of the oldest
CloudDeliver_Newest(a) ==
    /\ cPc[a] = "open" /\ cChan[a] # <<>>
    /\ \/ /\ cGot' = [cGot EXCEPT ![a] = Append(@, cChan[a][Len(cChan[a])])]
          /\ cChan' = [cChan EXCEPT ![a] = SubSeq(@, 1, Len(@) - 1)]
          /\ UNCHANGED <<cPc, peer_map>>
       \/ /\ cPc' = [cPc EXCEPT ![a] = "closed"]
          /\ peer_map' = Unregister(a)
          /\ cChan' = [cChan EXCEPT ![a] = <<>>]
          /\ UNCHANGED cGot
    /\ UNCHANGED <<cDevices, cMsgs, clientVars>>
    /\ UNCHANGED <<msgVars, hubVars>>

\* rx.recv() arm: write the queued message to the peer; a failed write
\* leaves the loop
CloudDeliver(a) ==
    /\ cPc[a] = "open" /\ cChan[a] # <<>>
    /\ \/ /\ cGot' = [cGot EXCEPT ![a] = Append(@, Head(cChan[a]))]
          /\ cChan' = [cChan EXCEPT ![a] = Tail(@)]
          /\ UNCHANGED <<cPc, peer_map>>
       \/ /\ cPc' = [cPc EXCEPT ![a] = "closed"]
          /\ peer_map' = Unregister(a)
          /\ cChan' = [cChan EXCEPT ![a] = <<>>]
          /\ UNCHANGED cGot
    /\ UNCHANGED <<cDevices, cMsgs, clientVars>>
    /\ UNCHANGED <<msgVars, hubVars>>

\* main loop, stdin arm: send the line to every registered peer.  limit is
\* the number of messages the exploration lets the Cloud handle.
CloudConsole(text, limit) ==
    /\ cMsgs < limit
    /\ cMsgs' = cMsgs + 1
    /\ cChan' = SendTo(peer_map, create_cloud_message(text))
    /\ UNCHANGED <<cPc, cGot, peer_map, cDevices, clientVars>>
    /\ UNCHANGED <<msgVars, hubVars>>

CloudStdin(text) == CloudConsole(text, MaxCloudMsgs)

\* where the order of delivery is explored
CloudStdinOrder(text) == CloudConsole(text, MaxOrder)

-----------------------------------------------------------------------------
(* The client program connected to the Cloud (pozor-dom-client/src/main.rs) *)

\* The peers of the Cloud that run the client program
Clients == {"a1"}

ClientName == <<"C","l","i","e","n","t">>

\* The lines typed on a client's console (already trimmed, never empty)
ClientStdinTexts == { <<"h","i">>, <<"o","k"," ">> \o RECEIVED_SUFFIX }

ClientInit ==
    /\ clPc = [a \in CloudPeers |-> IF a \in Clients THEN "hello" ELSE "none"]
    /\ clOut = [a \in CloudPeers |-> <<>>]
    /\ clIdx = [a \in CloudPeers |-> 0]

\* write.send: the frame is on its way to the Cloud, or the write fails
\* and the client leaves (break / return)
ClientWrite(a, frame) ==
    \/ /\ clOut' = [clOut EXCEPT ![a] = Append(@, frame)]
       /\ UNCHANGED clPc
    \/ /\ clPc' = [clPc EXCEPT ![a] = "done"]
       /\ UNCHANGED clOut

\* connect_async succeeded: send the hello message
ClientHello(a) ==
    /\ clPc[a] = "hello"
    /\ cPc[a] \in {"registered", "open"}
    /\ \/ /\ clOut' = [clOut EXCEPT ![a] = Append(@, create_welcome_message(ClientName))]
          /\ clPc' = [clPc EXCEPT ![a] = "loop"]
       \/ /\ clPc' = [clPc EXCEPT ![a] = "done"]
          /\ UNCHANGED clOut
    /\ UNCHANGED <<clIdx, cPc, cChan, cGot, peer_map, cDevices, cMsgs>>
    /\ UNCHANGED <<msgVars, hubVars>>

\* Mutant: the client echoes every text frame it receives
ClientRecv_AlwaysEcho(a) ==
    /\ clPc[a] = "loop"
    /\ clIdx[a] < Len(cGot[a])
    /\ clIdx' = [clIdx EXCEPT ![a] = @ + 1]
    /\ ClientWrite(a, create_echo_message(ClientName, cGot[a][clIdx[a] + 1]))
    /\ UNCHANGED <<cPc, cChan, cGot, peer_map, cDevices, cMsgs>>
    /\ UNCHANGED <<msgVars, hubVars>>

\* read.next() arm, Message::Text: echo the text back unless it is a
\* response message
ClientRecv(a) ==
    LET text == cGot[a][clIdx[a] + 1]
    IN  /\ clPc[a] = "loop"
        /\ clIdx[a] < Len(cGot[a])
        /\ clIdx' = [clIdx EXCEPT ![a] = @ + 1]
        /\ IF ~is_response_message(text)
           THEN ClientWrite(a, create_echo_message(ClientName, text))
           ELSE UNCHANGED <<clPc, clOut>>
        /\ UNCHANGED <<cPc, cChan, cGot, peer_map, cDevices, cMsgs>>
        /\ UNCHANGED <<msgVars, hubVars>>

\* read.next() arm, Message::Close, Some(Err) or None: the Cloud has closed
\* the connection and every frame it sent has been handled
ClientClosed(a) ==
    /\ clPc[a] = "loop"
    /\ cPc[a] = "closed"
    /\ clIdx[a] = Len(cGot[a])
    /\ clPc' = [clPc EXCEPT ![a] = "done"]
    /\ UNCHANGED <<clOut, clIdx, cPc, cChan, cGot, peer_map, cDevices, cMsgs>>
    /\ UNCHANGED <<msgVars, hubVars>>

\* rx.recv() arm: a line from the console is sent as a text frame
ClientStdin(a, text) ==
    /\ clPc[a] = "loop"
    /\ cMsgs < MaxCloudMsgs
    /\ cMsgs' = cMsgs + 1
    /\ ClientWrite(a, text)
    /\ UNCHANGED <<clIdx, cPc, cChan, cGot, peer_map, cDevices>>
    /\ UNCHANGED <<msgVars, hubVars>>

-----------------------------------------------------------------------------
(* The Hub's link task as a peer of the Cloud: what the Cloud writes to the *)
(* Hub's address is what the link task reads, and what the link task        *)
(* writes is what the Cloud's handler for that address reads                *)

\* the address from which the Hub's link task is connected
HubAddr == "a2"

\* connect_to_cloud, read.next() arm, Message::Text: the next frame the
\* Cloud has written to the Hub is sent on the bus
ChainLinkRecv ==
    /\ linkPc = "connected"
    /\ clIdx[HubAddr] < Len(cGot[HubAddr])
    /\ clIdx' = [clIdx EXCEPT ![HubAddr] = @ + 1]
    /\ BusSend(BusMsg(cGot[HubAddr][clIdx[HubAddr] + 1], "cloud"))
    /\ UNCHANGED <<linkPc, cloudWritten, cloudUp, supVars, peerPc, peerGot,
                   storeVars, cntVars>>
    /\ UNCHANGED <<msgVars, cPc, cChan, cGot, peer_map, cDevices, cMsgs, clPc, clOut>>

\* connect_to_cloud, rx.recv() arm: the oldest message of the receiver is
\* written to the Cloud (the link stays established)
ChainLinkForward ==
    /\ linkPc = "connected" /\ linkRx # <<>>
    /\ cloudWritten' = Append(cloudWritten, Head(linkRx))
    /\ linkRx' = Tail(linkRx)
    /\ clOut' = [clOut EXCEPT ![HubAddr] = Append(@, Head(linkRx).text)]
    /\ UNCHANGED <<linkPc, cloudUp, supVars, peerVars, storeVars, cntVars>>
    /\ UNCHANGED <<msgVars, cPc, cChan, cGot, peer_map, cDevices, cMsgs, clPc, clIdx>>

\* the Hub after startup with cloud_enabled true, once the supervisor has
\* spawned the link task and connect_async has succeeded
HubLinked ==
    /\ dbCloud = "unset" /\ memCloud = TRUE /\ cmdQ = <<>>
    /\ current_task = TRUE /\ nTasks = 1
    /\ supLast = Branch("Connect", "spawned", 0)
    /\ linkPc = "connected" /\ linkRx = <<>> /\ cloudWritten = <<>> /\ cloudUp = TRUE
    /\ peerPc = [p \in Peers |-> "idle"]
    /\ peerRx = [p \in Peers |-> <<>>]
    /\ peerGot = [p \in Peers |-> <<>>]
    /\ dbDevices = EmptyMap /\ memDevices = EmptyMap /\ mqttOut = <<>>
    /\ ingested = <<>> /\ devicesResp = NoResponse /\ toggleResp = <<>>
    /\ messages = <<>> /\ messagesResp = NoResponse /\ cmdResults = <<>>
    /\ opPc = [o \in Ops |-> AtRest] /\ lockOwner = [l \in Locks |-> "free"]
    /\ nMsgs = 0 /\ nToggles = 0 /\ nFaults = 0 /\ nCmds = 0

\* the texts typed on the client's console here: a plain one, one that
\* reads as a response, and one that carries the hub-relay tag
ChainTexts == ClientStdinTexts \cup { create_hub_broadcast(<<"y","o">>) }

\* the telemetry payloads that reach the Hub here
ChainPayloads == { <<"J_tel_d1_21">> }

\* a frame is on its way to a program that is still there to handle it
InFlight ==
    \/ linkRx # <<>>
    \/ clIdx[HubAddr] < Len(cGot[HubAddr])
    \/ \E a \in Clients : clPc[a] = "loop" /\ clIdx[a] < Len(cGot[a])
    \/ \E a \in CloudPeers :
          cPc[a] \in {"registered", "open"} /\ (cChan[a] # <<>> \/ clOut[a] # <<>>)

\* the connections are set up and every frame sent so far has been handled
ChainSettled ==
    /\ ~InFlight
    /\ \A a \in Clients \cup {HubAddr} : cPc[a] \in {"open", "closed"}
    /\ \A a \in Clients : clPc[a] # "hello"

\* a single text is injected into the settled system: on a client's
\* console, on the Cloud's console, or as telemetry at the Hub
ChainClientStdin(a, text) == ChainSettled /\ nMsgs = 0 /\ ClientStdin(a, text)
ChainCloudStdin(text)     == ChainSettled /\ nMsgs = 0 /\ CloudStdin(text)
ChainTelemetry(payload)   == ChainSettled /\ cMsgs = 0 /\ MqttTelemetry(payload)

\* the Hub's link is established first: the Cloud accepts a client once the
\* frames of the Hub's own connection have been handled
ChainClientAccept(a) ==
    /\ cPc[HubAddr] \in {"open", "closed"} /\ ~InFlight
    /\ CloudAccept(a)

-----------------------------------------------------------------------------
(* create_echo_message, is_response_message and extract_hub_broadcast
   applied to bounded inputs *)

\* The component names given to create_echo_message: the two the programs
\* use, and the empty name
EchoComponents == {CloudName, ClientName, <<>>}

ProtocolInit ==
    /\ mIn \in [component : EchoComponents, content : MsgInputs]
    /\ mOut = <<>>
    /\ mPc = "start"

MsgEcho ==
    /\ mPc = "start"
    /\ mOut' = create_echo_message(mIn.component, mIn.content)
    /\ mPc' = "echoed"
    /\ UNCHANGED mIn
    /\ UNCHANGED <<hubVars, cloudVars>>

MsgClassify ==
    /\ mPc = "echoed"
    /\ mOut' = is_response_message(mOut)
    /\ mPc' = "classified"
    /\ UNCHANGED mIn
    /\ UNCHANGED <<hubVars, cloudVars>>

MsgExtract ==
    /\ mPc = "start"
    /\ mOut' = extract_hub_broadcast(mIn.content)
    /\ mPc' = "extracted"
    /\ UNCHANGED mIn
    /\ UNCHANGED <<hubVars, cloudVars>>

-----------------------------------------------------------------------------
(* HubState::add_message (pozor-dom-shared/src/dashboard/lib.rs) applied to *)
(* a run of calls: mIn holds every message added so far, mOut the log      *)

\* "Keep only last 100 messages"
MESSAGE_CAPACITY == 100

\* Mutant: a full log drops the message just pushed
add_message_DropNewest(log, message) ==
    LET pushed == Append(log, message)
    IN  IF Len(pushed) > MESSAGE_CAPACITY THEN SubSeq(pushed, 1, Len(pushed) - 1) ELSE pushed

\* messages.push(message); if messages.len() > 100 { messages.remove(0) }
add_message(log, message) ==
    LET pushed == Append(log, message)
    IN  IF Len(pushed) > MESSAGE_CAPACITY THEN Tail(pushed) ELSE pushed

\* HubState::new: an empty log
LogInit ==
    /\ mIn = <<>>
    /\ mOut = <<>>
    /\ mPc = "log"

\* the messages given to add_message: the text "a" or "b" followed by the
\* number of the call, so that no two calls add the same string
LogTexts(n) == { <<c>> \o NatString(n) : c \in {"a", "b"} }

\* one call of add_message; the texts vary over the first calls only
LogAdd(message) ==
    /\ mPc = "log"
    /\ Len(mIn) < MaxAdds
    /\ Len(mIn) >= 2 => Head(message) = "a"
    /\ mIn' = Append(mIn, message)
    /\ mOut' = add_message(mOut, message)
    /\ UNCHANGED mPc
    /\ UNCHANGED <<hubVars, cloudVars>>

-----------------------------------------------------------------------------
(* Specifications *)

CloudIdle ==
    /\ cPc = <<>> /\ cChan = <<>> /\ cGot = <<>> /\ peer_map = {}
    /\ cDevices = EmptyMap /\ cMsgs = 0
    /\ clPc = <<>> /\ clOut = <<>> /\ clIdx = <<>>

MsgNext ==
    \/ MsgTag
    \/ MsgStrip

\* the message protocol's pure functions
InitMsg == MsgInit /\ HubIdle /\ CloudIdle

SpecMsg == InitMsg /\ [][MsgNext]_vars

\* the echo-response constructor and classifier, and the tag stripper on
\* its own
ProtocolNext ==
    \/ MsgEcho
    \/ MsgClassify
    \/ MsgExtract

InitProtocol == ProtocolInit /\ HubIdle /\ CloudIdle

SpecProtocol == InitProtocol /\ [][ProtocolNext]_vars

\* The Hub started over an existing device table, ingesting telemetry
RehydrateNext == \E payload \in TelemetryPayloads : MqttTelemetryAlone(payload)

InitRehydrate == HubStarted /\ MsgIdle /\ CloudIdle

SpecRehydrate == InitRehydrate /\ [][RehydrateNext]_vars

\* the message log
LogNext == \E message \in LogTexts(Len(mIn) + 1) : LogAdd(message)

InitLog == LogInit /\ HubIdle /\ CloudIdle

SpecLog == InitLog /\ [][LogNext]_vars

\* the device table's save and load
StoreNext ==
    \/ StoreSave
    \/ StoreLoad

InitStore == StoreInit /\ HubIdle /\ CloudIdle

SpecStore == InitStore /\ [][StoreNext]_vars

\* The Hub relaying: local peers, telemetry and the cloud link, with no
\* toggle request after startup.
RelayNext ==
    \/ SupConnect
    \/ LinkConnectOk
    \/ LinkConnectFail
    \/ LinkWake
    \/ LinkForward
    \/ \E text \in CloudTexts : LinkRecv(text)
    \/ LinkDrop
    \/ \E p \in Peers : HubAccept(p)
    \/ \E p \in Peers, text \in PeerTexts : HubPeerText(p, text)
    \/ \E p \in Peers : HubPeerClose(p)
    \/ \E p \in Peers : HubPeerDeliver(p)
    \/ \E payload \in TelemetryPayloads : MqttTelemetry(payload)

Init == HubInit /\ MsgIdle /\ CloudIdle

Spec == Init /\ [][RelayNext]_vars

\* The Hub's cloud link under toggle requests and Cloud outages, with
\* telemetry as the traffic on the bus and no local peer connected.
LinkNext ==
    \/ SupConnect
    \/ SupDisconnect
    \/ LinkConnectOk
    \/ LinkConnectFail
    \/ LinkWake
    \/ LinkForward
    \/ \E text \in CloudTexts : LinkRecv(text)
    \/ LinkDrop
    \/ CloudFlip
    \/ \E payload \in TelemetryPayloads : MqttTelemetry(payload)
    \/ ToggleCloud

SpecLink == Init /\ [][LinkNext]_vars

\* The scheduler runs every spawned task that can take a step: the
\* supervisor reads its channel, the link task connects, sleeps and wakes.
LinkFairness ==
    /\ WF_vars(SupConnect)
    /\ WF_vars(SupDisconnect)
    /\ WF_vars(LinkConnectOk)
    /\ WF_vars(LinkConnectFail)
    /\ WF_vars(LinkWake)
    /\ WF_vars(LinkForward)

FairLink == Init /\ [][LinkNext]_vars /\ LinkFairness

\* The supervisor and its link task under any sequence of commands.
SupNext ==
    \/ \E command \in {"Connect", "Disconnect"} : SupCommand(command)
    \/ SupConnect
    \/ SupDisconnect
    \/ LinkConnectOk
    \/ LinkConnectFail
    \/ LinkWake
    \/ LinkForward
    \/ LinkDrop
    \/ CloudFlip
    \/ \E payload \in TelemetryPayloads : MqttTelemetry(payload)

SpecSup == Init /\ [][SupNext]_vars

\* The Hub ingesting telemetry and answering GET /api/devices, with no
\* local peer and no link task.
TelemetryNext ==
    \/ \E payload \in TelemetryPayloads : MqttTelemetryAlone(payload)
    \/ api_devices

SpecTelemetry == Init /\ [][TelemetryNext]_vars

\* The Hub across restarts: toggles, the supervisor, the link's connect
\* attempts, telemetry, and the process starting again.
BootNext ==
    \/ ToggleCloud
    \/ SupConnect
    \/ SupDisconnect
    \/ LinkConnectOk
    \/ LinkConnectFail
    \/ LinkWake
    \/ \E payload \in TelemetryPayloads : MqttTelemetry(payload)
    \/ HubRestart

SpecBoot == Init /\ [][BootNext]_vars

\* The Hub with its local peers and telemetry, and no link task (the
\* supervisor has not yet read its channel).
LocalNext ==
    \/ \E p \in Peers : HubAccept(p)
    \/ \E p \in Peers, text \in LocalTexts : HubPeerTextLocal(p, text)
    \/ \E p \in Peers : HubPeerClose(p)
    \/ \E p \in Peers : HubPeerDeliver(p)
    \/ \E payload \in TelemetryPayloads : MqttTelemetryLocal(payload)

\* the Hub's first start (no flag stored yet), the Cloud being reachable
InitLocal == Init /\ dbCloud = "unset" /\ cloudUp

SpecLocal == InitLocal /\ [][LocalNext]_vars

\* The same with telemetry as the only traffic: the local peers listen
IngestNext ==
    \/ \E p \in Peers : HubAccept(p)
    \/ \E p \in Peers : HubPeerClose(p)
    \/ \E p \in Peers : HubPeerDeliver(p)
    \/ \E payload \in TelemetryPayloads : MqttTelemetryLocal(payload)

SpecIngest == InitLocal /\ [][IngestNext]_vars

\* The Hub's HTTP API: toggles, the two GET routes, the supervisor acting
\* on the toggles' commands, and telemetry filling the device table.
ApiNext ==
    \/ ToggleCloud
    \/ api_devices
    \/ get_messages
    \/ SupConnect
    \/ SupDisconnect
    \/ \E payload \in TelemetryPayloads : MqttTelemetry(payload)

SpecApi == Init /\ [][ApiNext]_vars

\* The Hub's handlers followed lock by lock, and the supervisor reading
\* its channel
LocksNext ==
    \/ \E o \in Ops : OpStep(o)
    \/ SupConnect
    \/ SupDisconnect

InitLocks == Init /\ cloudUp

SpecLocks == InitLocks /\ [][LocksNext]_vars

\* the handlers are tasks of the runtime: while one of them can take a
\* step, one of them does.  The requests being finitely many, nothing is
\* assumed about who gets a lock that several handlers wait for.
HandlerStep == \E o \in Ops : OpStep(o)

SpecHandlers == InitLocal /\ [][HandlerStep]_vars

FairLocks == SpecHandlers /\ WF_vars(HandlerStep)

\* The Hub's local peers, whose inbound streams may end
EndNext ==
    \/ \E p \in Peers : HubAccept(p)
    \/ \E p \in Peers, text \in PeerTexts : HubPeerTextFrames(p, text)
    \/ \E p \in Peers : HubPeerEnd(p)
    \/ \E p \in Peers : HubPeerClose(p)
    \/ \E p \in Peers : HubPeerDeliver(p)

SpecEnd == InitLocal /\ [][EndNext]_vars

\* a handler with a message in its receiver is scheduled and writes it
FairEnd == SpecEnd /\ WF_vars(\E p \in Peers : HubPeerDeliver(p))

\* A local peer publishing while the cloud link is toggled and the link task
\* connects, forwards, loses its connection and connects again
RelinkTexts == { <<"h","i">>, <<"y","o">> }

RelinkNext ==
    \/ HubAccept("p1")
    \/ \E text \in RelinkTexts : HubPeerTextFrames("p1", text)
    \/ HubPeerDeliver("p1")
    \/ ToggleCloud
    \/ SupConnect
    \/ SupDisconnect
    \/ LinkConnectOk
    \/ LinkConnectFail
    \/ LinkWake
    \/ LinkForward
    \/ LinkDrop
    \/ CloudFlip

SpecRelink == InitLocal /\ [][RelinkNext]_vars

\* The Cloud
CloudNext ==
    \/ \E a \in CloudPeers : CloudAccept(a)
    \/ \E a \in CloudPeers : CloudWelcome(a)
    \/ \E a \in CloudPeers, text \in CloudPeerTexts : CloudPeerText(a, text)
    \/ \E a \in CloudPeers : CloudPeerClose(a)
    \/ \E a \in CloudPeers : CloudDeliver(a)
    \/ \E text \in CloudStdinTexts : CloudStdin(text)

InitCloud == CloudInit /\ NoClients /\ MsgIdle /\ HubIdle

SpecCloud == InitCloud /\ [][CloudNext]_vars

\* The order of delivery: the Hub's bus with telemetry as the traffic, and
\* the Cloud's channels with two peers and the console as the traffic.  No
\* link joins the two programs here, so their steps commute and each is
\* explored with the other at rest.
OrderPeers == {"a1", "a2"}

OrderTexts == { <<"h","i">>, create_hub_broadcast(<<"y","o">>) }

HubAtRest == nMsgs = 0 /\ \A p \in Peers : peerPc[p] = "idle"

CloudOrderNext ==
    \/ \E a \in OrderPeers : CloudAccept(a)
    \/ \E a \in OrderPeers : CloudWelcome(a)
    \/ \E a \in OrderPeers, text \in OrderTexts : CloudPeerTextOrder(a, text)
    \/ \E a \in OrderPeers : CloudPeerClose(a)
    \/ \E a \in OrderPeers : CloudDeliver(a)
    \/ \E text \in CloudStdinTexts : CloudStdinOrder(text)

OrderNext ==
    \/ CloudInit /\ IngestNext
    \/ HubAtRest /\ CloudOrderNext

InitOrder == HubInit /\ dbCloud = "unset" /\ cloudUp /\ MsgIdle /\ CloudInit /\ NoClients

SpecOrder == InitOrder /\ [][OrderNext]_vars

\* Frames other than text: the Hub's local peers, and the Cloud's peers,
\* send text and other frames.  As above, each program is explored with
\* the other at rest.
HubFramesNext ==
    \/ \E p \in Peers : HubAccept(p)
    \/ \E p \in Peers, text \in PeerTexts : HubPeerTextFrames(p, text)
    \/ \E p \in Peers, frame \in OtherFrames : HubPeerOther(p, frame)
    \/ \E p \in Peers : HubPeerClose(p)
    \/ \E p \in Peers : HubPeerDeliver(p)

CloudFramesNext ==
    \/ \E a \in OrderPeers : CloudAccept(a)
    \/ \E a \in OrderPeers : CloudWelcome(a)
    \/ \E a \in OrderPeers, text \in OrderTexts : CloudPeerTextFrames(a, text)
    \/ \E a \in OrderPeers, frame \in OtherFrames : CloudPeerOther(a, frame)
    \/ \E a \in OrderPeers : CloudPeerClose(a)
    \/ \E a \in OrderPeers : CloudDeliver(a)

FramesNext ==
    \/ CloudInit /\ HubFramesNext
    \/ HubAtRest /\ CloudFramesNext

SpecFrames == InitOrder /\ [][FramesNext]_vars

\* The Cloud with the client program at one of its peers and another
\* program at a second peer
EchoPeers == Clients \cup {"a2"}

EchoNext ==
    \/ \E a \in EchoPeers : CloudAccept(a)
    \/ \E a \in EchoPeers : CloudWelcome(a)
    \/ \E a \in EchoPeers \ Clients, text \in CloudPeerTexts : CloudPeerText(a, text)
    \/ \E a \in Clients : CloudReadClient(a)
    \/ \E a \in EchoPeers : CloudPeerClose(a)
    \/ \E a \in EchoPeers : CloudDeliver(a)
    \/ \E a \in Clients : ClientHello(a)
    \/ \E a \in Clients : ClientRecv(a)
    \/ \E a \in Clients : ClientClosed(a)
    \/ \E a \in Clients, text \in ClientStdinTexts : ClientStdin(a, text)

InitEcho == CloudInit /\ ClientInit /\ MsgIdle /\ HubIdle

SpecEcho == InitEcho /\ [][EchoNext]_vars

\* One Cloud, the Hub with its link established and one client: the steps
\* the three programs take by themselves, and the injection of a text
ChainPeers == Clients \cup {HubAddr}

ChainRelay ==
    \/ CloudAccept(HubAddr)
    \/ \E a \in Clients : ChainClientAccept(a)
    \/ \E a \in ChainPeers : CloudWelcome(a)
    \/ \E a \in ChainPeers : CloudReadClient(a)
    \/ \E a \in ChainPeers : CloudDeliver(a)
    \/ \E a \in Clients : ClientHello(a)
    \/ \E a \in Clients : ClientRecv(a)
    \/ \E a \in Clients : ClientClosed(a)
    \/ ChainLinkRecv
    \/ ChainLinkForward

ChainNext ==
    \/ ChainRelay
    \/ \E a \in Clients, text \in ChainTexts : ChainClientStdin(a, text)
    \/ \E text \in CloudStdinTexts : ChainCloudStdin(text)
    \/ \E payload \in ChainPayloads : ChainTelemetry(payload)

InitChain == HubLinked /\ CloudInit /\ ClientInit /\ MsgIdle

SpecChain == InitChain /\ [][ChainNext]_vars

\* the three programs are scheduled: while one of them can take a step,
\* one of them does
FairChain == SpecChain /\ WF_vars(ChainRelay)

-----------------------------------------------------------------------------
(* Properties *)

Range(q) == {q[i] : i \in DOMAIN q}

\* The supervisor takes a Connect / a Disconnect off its channel in this step
ConnectTaken    == cmdQ # <<>> /\ Head(cmdQ) = "Connect" /\ cmdQ' = Tail(cmdQ)
DisconnectTaken == cmdQ # <<>> /\ Head(cmdQ) = "Disconnect" /\ cmdQ' = Tail(cmdQ)

\* C1: stripping the hub-relay tag from the tagged form of s gives back s,
\* for every string s, also with leading or trailing whitespace.
C1_RoundTrip == mPc = "stripped" => mOut = mIn

\* C2: no frame read from the Cloud on the link is written back to the Cloud
\* on the link.
C2_NoEchoToCloud ==
    \A i \in DOMAIN cloudWritten : cloudWritten[i].src # "cloud"

\* C3: a text frame without the hub-relay tag that the Cloud reads from peer
\* p is queued exactly once for each registered peer other than p, and for
\* nobody else: not for p, not for an unregistered address.
C3_BroadcastOthers ==
    [][\A p \in CloudPeers, text \in CloudPeerTexts :
          (CloudPeerText(p, text) /\ ~is_hub_broadcast(text)) =>
             /\ \A q \in peer_map \ {p} :
                   cChan'[q] = Append(cChan[q], AddrFrame(p, text))
             /\ \A q \in (CloudPeers \ peer_map) \cup {p} : cChan'[q] = cChan[q]
             /\ AddrFrame(p, text) \notin Range(cGot'[p])]_vars

\* C3 witness: some peer's text has reached both other peers, and not itself
C3_Witness ==
    \E p \in CloudPeers :
       /\ \A q \in CloudPeers \ {p} :
             AddrFrame(p, <<"h","i">>) \in Range(cChan[q]) \cup Range(cGot[q])
       /\ AddrFrame(p, <<"h","i">>) \notin Range(cChan[p]) \cup Range(cGot[p])
       /\ peer_map = CloudPeers

\* C4: a text frame sent by a local peer is published to every other local
\* peer and is never delivered back to the peer that sent it.
C4_NoSelfDelivery ==
    /\ [][\A p \in Peers, text \in PeerTexts :
             HubPeerText(p, text) =>
                \A q \in Peers \ {p} :
                   peerPc[q] = "open" => peerRx'[q] = Append(peerRx[q], BusMsg(text, p))]_vars
    /\ [](\A p \in Peers : \A i \in DOMAIN peerGot[p] : peerGot[p][i].src # p)

\* C5: what the Hub writes to the Cloud for a text received from a local
\* peer carries the hub-relay tag.
C5_ForwardTagged ==
    \A i \in DOMAIN cloudWritten :
       cloudWritten[i].src \in Peers => is_hub_broadcast(cloudWritten[i].text)

\* C6: at most one link task exists (and it is the one the supervisor holds
\* the handle of), and a Connect processed while a link task exists changes
\* nothing.
C6_SingleLinkTask ==
    /\ [](nTasks <= 1 /\ (current_task <=> nTasks = 1))
    /\ [][(ConnectTaken /\ current_task) =>
             UNCHANGED <<current_task, nTasks, linkVars, peerVars, storeVars>>]_vars

\* C6 witness: a Connect was ignored because a link task exists
C6_Witness ==
    supLast.branch = "ignored" /\ current_task /\ nTasks = 1 /\ linkPc = "connected"

\* C7: processing a Disconnect while a link task exists cancels the task and
\* abandons what it had not yet forwarded (nothing more is written to the
\* Cloud); while no task exists the link stays Disconnected and no connection
\* is attempted until a Connect is processed; a Disconnect with no task
\* changes nothing.
C7_Disconnect ==
    /\ [][(DisconnectTaken /\ current_task) =>
             /\ ~current_task' /\ nTasks' = 0
             /\ linkPc' = "none" /\ linkRx' = <<>>
             /\ cloudWritten' = cloudWritten]_vars
    /\ [][(DisconnectTaken /\ ~current_task) =>
             UNCHANGED <<current_task, nTasks, linkVars, peerVars, storeVars>>]_vars
    /\ [](~current_task => linkPc = "none" /\ linkRx = <<>>)
    /\ [][(~current_task /\ ~ConnectTaken) =>
             (linkPc' = "none" /\ cloudWritten' = cloudWritten)]_vars

\* C7 witness: a Disconnect aborted a connected link task that still held a
\* message it had not forwarded
C7_Witness ==
    /\ supLast.branch = "aborted" /\ supLast.pending > 0
    /\ ~current_task /\ linkPc = "none" /\ cloudWritten = <<>>

\* C8: the link task starts a connect attempt only as its first attempt or
\* after the delay: never straight from an established link that failed.
C8_RetryAfterDelay ==
    [][(linkPc # "connecting" /\ linkPc' = "connecting") =>
          linkPc \in {"none", "sleeping"}]_vars

\* C9: if from some point on a link task exists (Connect processed, no later
\* Disconnect) and the Cloud accepts connections, the link is Connected again
\* and again, whatever failed before.
C9_EventuallyConnected ==
    <>[](current_task /\ cloudUp) => []<>(linkPc = "connected")

\* C9 witness: the link is established after an earlier failure
C9_Witness ==
    linkPc = "connected" /\ current_task /\ cloudUp /\ nFaults >= 1

\* C10: a telemetry payload that does not parse as DeviceTelemetry reaches
\* no receiver of the bus and changes neither the device table nor the
\* in-memory device map.
C10_MalformedDiscarded ==
    [][\A payload \in TelemetryPayloads :
          (MqttTelemetry(payload) /\ ~ParseTelemetry(payload)) =>
             UNCHANGED <<peerRx, linkRx, dbDevices, memDevices>>]_vars

-----------------------------------------------------------------------------
(* Properties of telemetry ingestion and the device table *)

Max(S) == CHOOSE x \in S : \A y \in S : y <= x

\* The positions of the log at which a sample of device d was accepted /
\* accepted and saved
Accepted(log, d) ==
    {i \in DOMAIN log : log[i].parsed /\ TelemetryOf(log[i].payload).device_id = d}
Saved(log, d) == {i \in Accepted(log, d) : log[i].saved}

SeenIds(log)  == {d \in DeviceIds : Accepted(log, d) # {}}
SavedIds(log) == {d \in DeviceIds : Saved(log, d) # {}}

\* The most recent sample of d accepted / saved
Latest(log, d)      == TelemetryOf(log[Max(Accepted(log, d))].payload)
LatestSaved(log, d) == TelemetryOf(log[Max(Saved(log, d))].payload)

MalformedSeen == \E i \in DOMAIN ingested : ~ingested[i].parsed

\* What GET /api/devices answers in this state when the load succeeds
DevicesNow == DevicesResponse(load_devices(dbDevices))

C12_IngestedVisible ==
    [][api_devices =>
          \A d \in SeenIds(ingested) : Latest(ingested, d) \in devicesResp'.body]_vars

\* C13: for every valid DeviceTelemetry T and every prior content of the
\* table, save_device(T) and then load_devices() gives a map whose entry
\* under T.device_id is T, field for field.
C13_SaveLoad ==
    mPc = "loaded" =>
       /\ mOut.ok
       /\ mIn.telemetry.device_id \in DOMAIN mOut.devices
       /\ mOut.devices[mIn.telemetry.device_id] = mIn.telemetry

\* C13 witness: T replaced a different row of the same device, and a
\* negative signal strength came back as it went in
C13_Witness ==
    /\ mPc = "loaded"
    /\ mIn.telemetry.device_id \in DOMAIN mIn.table
    /\ FromRow(mIn.table[mIn.telemetry.device_id]) # mIn.telemetry
    /\ mIn.telemetry.signal_strength < 0
    /\ mOut.ok /\ mOut.devices[mIn.telemetry.device_id] = mIn.telemetry

-----------------------------------------------------------------------------
(* Properties of the cloud_enabled flag *)

Last(q) == q[Len(q)]

\* C15: when a toggle request has returned, the stored cloud_enabled flag
\* is the in-memory flag, which is the value the response reports.
C15_TogglePersists ==
    [][ToggleCloud =>
          /\ Last(toggleResp').cloud_enabled = memCloud'
          /\ dbCloud' = CloudFlagText(memCloud')
          /\ get_cloud_enabled(dbCloud') = memCloud']_vars

\* C16: a toggle inverts cloud_enabled and reports the new value, so of two
\* toggles in a row the second restores the value before the first, and the
\* two responses differ.
C16_ToggleInverts ==
    /\ [][ToggleCloud =>
             /\ memCloud' = ~memCloud
             /\ toggleResp' = Append(toggleResp, ToggleResponse(~memCloud))]_vars
    /\ [](toggleResp # <<>> => memCloud = Last(toggleResp).cloud_enabled)
    /\ [](\A i \in 1..(Len(toggleResp) - 1) :
             toggleResp[i].cloud_enabled # toggleResp[i + 1].cloud_enabled)
    /\ [](\A i \in 1..(Len(toggleResp) - 2) :
             toggleResp[i + 2].cloud_enabled = toggleResp[i].cloud_enabled)

\* C16 witness: two toggles were answered, first off and then on, and the
\* flag is on again
C16_Witness ==
    /\ toggleResp = <<ToggleResponse(FALSE), ToggleResponse(TRUE)>>
    /\ memCloud

\* C17: a toggle request made while cloud_enabled is true answers
\* cloud_enabled = false and sends Disconnect; with no further request the
\* supervisor gets to that Disconnect, after which no link task exists and
\* the link is Disconnected.
C17_ToggleOffDisconnects ==
    /\ [][(ToggleCloud /\ memCloud) =>
             /\ Last(toggleResp').cloud_enabled = FALSE
             /\ cmdQ' = Append(cmdQ, "Disconnect")]_vars
    /\ ((\E i \in DOMAIN cmdQ : cmdQ[i] = "Disconnect")
          ~> (~current_task /\ nTasks = 0 /\ linkPc = "none"))

\* C17 witness: the toggle answered false, and the supervisor has aborted
\* the link task while the Cloud was reachable
C17_Witness ==
    /\ toggleResp = <<ToggleResponse(FALSE)>>
    /\ supLast = Branch("Disconnect", "aborted", 0)
    /\ cmdQ = <<>> /\ ~current_task /\ nTasks = 0 /\ linkPc = "none"
    /\ ~memCloud /\ cloudUp

\* C18: when the Hub has started, the in-memory flag is the stored flag
\* (true if it was never written) and Connect is in the supervisor's channel
\* exactly if it is true; so, until a toggle, a link task exists once the
\* supervisor has read its channel exactly if the stored flag is enabled.
C18_StartupFlag ==
    /\ memCloud = get_cloud_enabled(dbCloud)
    /\ cmdQ = IF get_cloud_enabled(dbCloud) THEN <<"Connect">> ELSE <<>>
    /\ [][HubRestart =>
             /\ memCloud' = get_cloud_enabled(dbCloud')
             /\ cmdQ' = IF get_cloud_enabled(dbCloud') THEN <<"Connect">> ELSE <<>>]_vars
    /\ []((nToggles = 0 /\ nFaults = 0 /\ cmdQ = <<>>) =>
             (current_task <=> get_cloud_enabled(dbCloud)))

-----------------------------------------------------------------------------
(* Properties of the echo-response *)

\* What this step adds to the frames written to q and to q's channel
NewGot(q)  == SubSeq(cGot'[q], Len(cGot[q]) + 1, Len(cGot'[q]))
NewChan(q) == SubSeq(cChan'[q], Len(cChan[q]) + 1, Len(cChan'[q]))
NewTo(q)   == Range(NewGot(q)) \cup Range(NewChan(q))

\* The Cloud relays the text: every text but tagged telemetry, which it
\* keeps for itself
Relayed(text) == ~(is_hub_broadcast(text) /\ ParseTelemetry(extract_hub_broadcast(text)))

NoEchoSent(text) ==
    /\ cGot' = cGot
    /\ \A q \in CloudPeers, component \in {CloudName, ClientName} :
          create_echo_message(component, text) \notin Range(NewChan(q))

\* C20: a text frame that contains "received:" gets no echo-response: not
\* from the Cloud, whoever sent the frame and tagged or not, and not from
\* the client program.
C20_NoEchoOfEcho ==
    /\ [][\A a \in EchoPeers \ Clients, text \in CloudPeerTexts :
             (CloudPeerText(a, text) /\ Contains(text, RECEIVED_SUFFIX)) =>
                NoEchoSent(text)]_vars
    /\ [][\A a \in Clients :
             (CloudReadClient(a) /\ Contains(Head(clOut[a]), RECEIVED_SUFFIX)) =>
                NoEchoSent(Head(clOut[a]))]_vars
    /\ [][\A a \in Clients :
             (ClientRecv(a) /\ Contains(cGot[a][clIdx[a] + 1], RECEIVED_SUFFIX)) =>
                clOut' = clOut /\ clPc' = clPc]_vars

\* C20 witness: the client has handled the Cloud's echo of its hello and
\* sent nothing for it, and the Cloud has read the client's echo of the
\* welcome, passed it on to the other peer and sent the client nothing more
C20_Witness ==
    \E a \in Clients :
       LET hello   == create_welcome_message(ClientName)
           welcome == create_welcome_message(CloudComponent)
       IN  /\ clPc[a] = "loop" /\ cPc[a] = "open"
           /\ cGot[a] = <<welcome, create_echo_message(CloudName, hello)>>
           /\ clIdx[a] = 2 /\ clOut[a] = <<>> /\ cChan[a] = <<>>
           /\ AddrFrame(a, create_echo_message(ClientName, welcome)) \in Range(cGot["a2"])

-----------------------------------------------------------------------------
(* Properties of relaying and of the message protocol *)

\* C21: a text frame that is an echo-response (contains "received:") read
\* by the Cloud from peer p is not sent on to the other peers: no channel
\* but p's own gets a frame in that step.
C21_NoRebroadcast ==
    [][\A p \in CloudPeers, text \in CloudPeerTexts :
          (CloudPeerText(p, text) /\ Contains(text, RECEIVED_SUFFIX)) =>
             \A q \in CloudPeers \ {p} : cChan'[q] = cChan[q]]_vars

\* C22: for every component name c and content s, the frame
\* create_echo_message(c, s) is classified as a response message.
C22_EchoIsResponse == mPc = "classified" => mOut = TRUE

\* C22 witness: the echo built from the empty name and the empty content
\* was classified as a response
C22_Witness ==
    /\ mPc = "classified" /\ mOut = TRUE
    /\ mIn.component = <<>> /\ mIn.content = <<>>

\* C23: extract_hub_broadcast of a string that does not carry the hub-relay
\* tag is that string, also when it begins or ends with whitespace.
C23_UntaggedIdentity ==
    (mPc = "extracted" /\ ~StartsWith(mIn.content, HUB_BROADCAST_PREFIX)) =>
       mOut = mIn.content

\* A frame made by create_welcome_message, whatever the component
IsWelcome(text) ==
    StartsWith(text, SubSeq(create_welcome_message(<<>>), 1,
                            Len(create_welcome_message(<<>>)) - 1))

\* C24, at the Cloud: a peer whose handler runs its loop has been sent the
\* welcome frame, once, and as the first frame written to it.
C24_CloudWelcome ==
    \A a \in DOMAIN cGot :
       /\ cPc[a] = "open" => cGot[a] # <<>>
       /\ cGot[a] # <<>> =>
             /\ cGot[a][1] = create_welcome_message(CloudComponent)
             /\ \A i \in 2..Len(cGot[a]) : ~IsWelcome(cGot[a][i])

\* C24: every accepted peer connection, at the Cloud and at the Hub, is sent
\* the welcome frame exactly once, and before any broadcast or echo.
C24_WelcomeFirst ==
    /\ C24_CloudWelcome
    /\ \A p \in Peers :
          /\ peerPc[p] = "open" => peerGot[p] # <<>>
          /\ peerGot[p] # <<>> =>
                /\ IsWelcome(peerGot[p][1].text)
                /\ \A i \in 2..Len(peerGot[p]) : ~IsWelcome(peerGot[p][i].text)

C27_SaveFailureNonFatal ==
    /\ [][\A payload \in TelemetryPayloads :
             (/\ MqttTelemetryLocal(payload) /\ ParseTelemetry(payload)
              /\ ~Last(ingested').saved) =>
                LET t == TelemetryOf(payload)
                IN  /\ dbDevices' = dbDevices
                    /\ t.device_id \in DOMAIN memDevices'
                    /\ memDevices'[t.device_id] = t
                    /\ \A p \in Peers :
                          peerPc[p] = "open" =>
                             peerRx'[p] = Append(peerRx[p], BusMsg(payload, "mqtt"))]_vars
    /\ [](\A payload \in TelemetryPayloads :
             (/\ ingested # <<>> /\ Last(ingested).parsed /\ ~Last(ingested).saved
              /\ nMsgs < MaxLocal) =>
                ENABLED MqttTelemetryLocal(payload))

\* C27 witness: the save failed for d1's sample and went through for d2's
\* sample after it; the device map holds both, the table only d2's, and
\* the connected peer was sent both payloads
C27_Witness ==
    /\ ingested = <<IngestLog(<<"J_tel_d1_21">>, TRUE, FALSE),
                    IngestLog(<<"J_tel_d2_21">>, TRUE, TRUE)>>
    /\ DOMAIN memDevices = {"d1", "d2"}
    /\ memDevices["d1"] = TelemetryOf(<<"J_tel_d1_21">>)
    /\ DOMAIN dbDevices = {"d2"}
    /\ peerGot["p1"] = <<BusMsg(<<"J_tel_d1_21">>, "mqtt"),
                         BusMsg(<<"J_tel_d2_21">>, "mqtt")>>

ChannelFrames(frames) == SelectSeq(frames, LAMBDA f : Head(f) = "[")

\* C29: towards one peer, what was published is delivered in the order of
\* publication.  On the Hub, while a peer stays connected, the frames written
\* to it followed by those waiting in its receiver only grow at the end,
\* and what a peer was written is a run of consecutive telemetry payloads in
\* the order of their arrival.  On the Cloud, while a peer stays registered,
\* the channel frames written to it followed by those waiting in its
\* channel only grow at the end.
C29_DeliveryOrder ==
    /\ [][\A p \in Peers :
             (peerPc[p] = "open" /\ peerPc'[p] = "open") =>
                StartsWith(peerGot'[p] \o peerRx'[p], peerGot[p] \o peerRx[p])]_vars
    /\ [](\A p \in Peers :
             \E k \in 0..Len(ingested) :
                /\ k + Len(peerGot[p]) <= Len(ingested)
                /\ \A i \in DOMAIN peerGot[p] :
                      peerGot[p][i].text = ingested[k + i].payload)
    /\ [][\A a \in CloudPeers :
             (cPc[a] \in {"registered", "open"} /\ cPc'[a] \in {"registered", "open"}) =>
                StartsWith(ChannelFrames(cGot'[a]) \o cChan'[a],
                           ChannelFrames(cGot[a]) \o cChan[a])]_vars
    /\ [][\A a \in CloudPeers : StartsWith(cGot'[a], cGot[a])]_vars
    /\ [][\A p \in Peers : StartsWith(peerGot'[p], peerGot[p])]_vars

\* C29 witness: a local peer has been written two different payloads, in
\* the order in which they arrived
C29_Witness ==
    /\ Len(ingested) = 2
    /\ ingested[1].payload # ingested[2].payload
    /\ peerPc["p1"] = "open"
    /\ peerGot["p1"] = <<[text |-> ingested[1].payload, src |-> "mqtt"],
                          [text |-> ingested[2].payload, src |-> "mqtt"]>>

\* C30: on the Cloud the registry holds exactly the addresses whose handler
\* is running after a successful accept: an address not yet accepted, one
\* whose accept failed and one whose handler has ended (Close frame, read
\* error, end of stream, failed welcome, failed echo or failed write) are
\* not in it.  The registry is keyed by address, so it holds an address at
\* most once.
C30_RegistryIsRunningHandlers ==
    /\ peer_map = {a \in CloudPeers : cPc[a] \in {"registered", "open"}}
    /\ \A a \in CloudPeers : cPc[a] \in {"idle", "closed"} => a \notin peer_map

\* C30 witness: one handler has ended after its peer was welcomed, one has
\* ended before any frame was written, and a third is running; only the
\* third address is registered
C30_Witness ==
    /\ cPc = [a \in CloudPeers |->
                IF a = "a2" THEN "open" ELSE "closed"]
    /\ cGot["a1"] # <<>>
    /\ cGot["a3"] = <<>>
    /\ peer_map = {"a2"}

-----------------------------------------------------------------------------
(* Properties of frames other than text, of locking and of termination *)

\* C31: a frame that is neither Text nor Close is dropped.  On the Hub
\* nothing is sent on the bus, no command is dispatched and the peer stays
\* connected with what it was written and what waits for it unchanged; on
\* the Cloud nothing is queued for any peer, nothing (no echo) is written
\* to any peer, and the peer stays open and registered.
C31_OtherFrameIgnored ==
    /\ [][\A p \in Peers, frame \in OtherFrames :
             HubPeerOther(p, frame) =>
                /\ peerPc'[p] = "open"
                /\ UNCHANGED <<peerPc, peerRx, peerGot, linkRx, cloudWritten,
                               mqttOut, cmdResults>>]_vars
    /\ [][\A a \in CloudPeers, frame \in OtherFrames :
             CloudPeerOther(a, frame) =>
                /\ cPc'[a] = "open" /\ a \in peer_map'
                /\ UNCHANGED <<cPc, peer_map, cChan, cGot, cDevices>>]_vars

\* C31 witness: the only connected local peer has sent one frame that is
\* not text and one text; it is still connected and has been written the
\* text and nothing else, and no command was dispatched
C31_Witness ==
    /\ nMsgs = 2
    /\ peerPc = [p \in Peers |-> IF p = "p1" THEN "open" ELSE "idle"]
    /\ peerGot["p1"] = <<BusMsg(<<"h","i">>, "p1")>>
    /\ peerRx["p1"] = <<>>
    /\ mqttOut = <<>> /\ cmdResults = <<>>

\* C32: no handler holds two of the locks at the same time, and the
\* database is written and read only by a handler that does not hold the
\* hub_state lock
C32_NoNestedLocks ==
    \A o \in Ops :
        /\ Cardinality(Held(o)) <= 1
        /\ opPc[o].at \in {"writing", "saving", "loading"} => "hub_state" \notin Held(o)

\* C34: toggles are served one after the other, each sending the command
\* that matches its flip before the next one flips.  So the commands
\* waiting in the supervisor's channel alternate, the first of them is the
\* one that changes whether a link task exists, and the last of them
\* matches the flag; and whenever the channel is empty and no toggle is
\* between its flip and its command, a link task exists exactly if
\* cloud_enabled is true.
TogglePending == \E o \in Togglers : opPc[o].at # "idle"

WaitsFor(o, lock) ==
    \/ lock = "db" /\ opPc[o].at = "flipped"
    \/ lock = "hub_state" /\ opPc[o].at = "saved"

\* C36: ingestion, toggles and the two GET handlers never wait for each
\* other in a circle on the hub_state lock and the database lock, some
\* handler that has started can always take a step, and with the locks
\* granted fairly every handler that has started comes to its end.
C36_NoDeadlock ==
    /\ [](~ \E o1, o2 \in Ops :
             /\ o1 # o2
             /\ \E l1, l2 \in Locks :
                   /\ l1 # l2
                   /\ lockOwner[l1] = o1 /\ WaitsFor(o1, l2)
                   /\ lockOwner[l2] = o2 /\ WaitsFor(o2, l1))
    /\ [](\A o \in Ops : "db" \in Held(o) => ~ \E l \in Locks : WaitsFor(o, l))
    /\ <>[](\A o \in Ops : opPc[o].at = "idle" /\ Held(o) = {})

\* C36 witness: a toggle holds the hub_state lock and waits for the
\* database, which the GET /api/devices handler holds, while ingestion
\* waits for hub_state and GET /api/messages has not started
C36_Witness ==
    /\ lockOwner = [l \in Locks |-> IF l = "hub_state" THEN "toggle1" ELSE "devices"]
    /\ opPc["toggle1"].at = "flipped"
    /\ opPc["ingest"].at = "saved"
    /\ opPc["devices"].at = "loading"

\* the last n elements of a sequence, all of it if it is shorter
LastN(q, n) == SubSeq(q, IF Len(q) > n THEN Len(q) - n + 1 ELSE 1, Len(q))

\* C33: after any run of add_message calls the log holds at most 100
\* entries, namely the messages added last, in the order in which they were
\* added; a call on a full log drops the oldest entry and nothing else.
C33_RollingLog ==
    /\ [](mPc = "log" =>
             /\ Len(mOut) <= 100
             /\ mOut = LastN(mIn, 100))
    /\ [][\A message \in LogTexts(Len(mIn) + 1) :
             (LogAdd(message) /\ Len(mOut) = 100) =>
                mOut' = Append(Tail(mOut), message)]_vars

\* C33 witness: 102 messages were added; the log holds the last 100 of
\* them, the third message first and the last message last
C33_Witness ==
    /\ mPc = "log"
    /\ Len(mIn) = 102
    /\ Len(mOut) = 100
    /\ mOut[1] = mIn[3] /\ mOut[1] = <<"a", "3">>
    /\ mOut[100] = mIn[102] /\ mOut[100] = <<"a", "1", "0", "2">>

\* how often "received:" occurs in a frame
EchoCount(f) ==
    Cardinality({i \in 1..Len(f) :
                   i + Len(RECEIVED_SUFFIX) - 1 <= Len(f)
                   /\ SubSeq(f, i, i + Len(RECEIVED_SUFFIX) - 1) = RECEIVED_SUFFIX})

\* the frames written to the peers of the Cloud and those written by them
ChainFrames ==
    UNION {Range(cGot[a]) \cup Range(cChan[a]) \cup Range(clOut[a]) : a \in CloudPeers}

\* C35: with one Cloud, the Hub's link established and one echoing client,
\* an injected text causes finitely many frames.  No frame is the echo of
\* an echo (no frame holds "received:" twice), and when the programs keep
\* being scheduled a state is reached from which no frame is in flight any
\* more.
C35_ChainEnds ==
    /\ [](\A f \in ChainFrames : EchoCount(f) <= 1)
    /\ <>[](~InFlight)

\* a text typed on the client's console has gone through the Cloud, the
\* Hub's link and back, the client has echoed it once, and nothing is in
\* flight any more with all three programs still connected
C35_Witness ==
    /\ ~InFlight /\ cMsgs = 1
    /\ cPc["a1"] = "open" /\ cPc[HubAddr] = "open" /\ clPc["a1"] = "loop"
    /\ \E i \in 1..Len(cGot[HubAddr]), j \in 1..Len(cGot["a1"]) :
          /\ Contains(cGot[HubAddr][i], <<"h","i">>)
          /\ EchoCount(cGot[HubAddr][i]) = 1
          /\ Contains(cGot["a1"][j], cGot[HubAddr][i])
    /\ \E k \in 1..Len(cloudWritten) : Contains(cloudWritten[k].text, <<"h","i">>)

\* the device map a reader of the device table gets
StoredDevices == load_devices(dbDevices).devices

\* every save_device call of this run went through
AllSaved == \A i \in DOMAIN ingested : ingested[i].parsed => ingested[i].saved

C38_EndedHandlerLeaves ==
    \A p \in Peers : (peerPc[p] = "ended") ~> (peerPc[p] = "closed")

\* C39: what is published on the bus while no link is established never
\* reaches the Cloud.  While the link is not established its receiver holds
\* nothing, and no step taken then (a publication included) puts anything
\* in it or writes anything to the Cloud; a link that becomes established
\* starts with an empty receiver; the receiver grows only by a publication
\* made while the link is established; and every write to the Cloud is of
\* the oldest message of that receiver.
C39_NoReplayAfterConnect ==
    /\ [](linkPc # "connected" => linkRx = <<>>)
    /\ [][linkPc # "connected" =>
             (linkRx' = <<>> /\ cloudWritten' = cloudWritten)]_vars
    /\ [][Len(linkRx') > Len(linkRx) =>
             (linkPc = "connected" /\ linkPc' = "connected"
              /\ Len(linkRx') = Len(linkRx) + 1
              /\ SubSeq(linkRx', 1, Len(linkRx)) = linkRx)]_vars
    /\ [][cloudWritten' # cloudWritten =>
             (linkPc = "connected" /\ linkRx # <<>>
              /\ cloudWritten' = Append(cloudWritten, Head(linkRx)))]_vars

\* C39 witness: with no connection lost and no toggle, a peer has been
\* sent two different texts from the bus; the first was published before
\* the link was established and the second after, and the Cloud has been
\* written the second only
C39_Witness ==
    /\ nFaults = 0 /\ nToggles = 0 /\ linkPc = "connected" /\ linkRx = <<>>
    /\ Len(peerGot["p1"]) = 2 /\ Len(cloudWritten) = 1
    /\ peerGot["p1"][1].text # peerGot["p1"][2].text
    /\ cloudWritten[1] = peerGot["p1"][2]

====
